---- MODULE Spec2Model ----
(***************************************************************************)
(* Project Master MCP server: dependency validation, next-task selection,  *)
(* the task tools working on the tasks table, and the PRP task generation  *)
(* pipeline.                                                               *)
(*                                                                         *)
(* Conventions.  Hours are counted in tenths of an hour (0.5 h = 5), so    *)
(* that the decimal arithmetic of the program stays in the integers.  A    *)
(* missing field of a JSON value is the string "absent"; a nullable value  *)
(* is <<>> when missing and <<v>> otherwise.  An error message is a pair   *)
(* <<kind, id>>.                                                           *)
(***************************************************************************)
EXTENDS Integers, Sequences, FiniteSets, TLC

VARIABLES
    vTaskId,      \* validateTaskDependencies: argument taskId
    vDeps,        \* validateTaskDependencies: argument dependencies
    vAllTasks,    \* validateTaskDependencies: argument allTasks (id -> task)
    vResult,      \* validateTaskDependencies: returned ValidationResult
    nTasks,       \* findNextTask: argument tasks (an array)
    nExcludeBlocked, \* findNextTask: argument excludeBlocked
    nResult,      \* findNextTask: returned task (<<task>>) or null (<<>>)
    gContent,     \* generateTasksFromPRP: argument prpContent
    gConfig,      \* generateTasksFromPRP: argument config
    gPc,          \* generateTasksFromPRP: where the call stands
    gRequests,    \* requests sent to the completion service
    gService,     \* what the completion service answered
    gResult,      \* generateTasksFromPRP: the array the promise resolves to
    gPath,        \* which return statement produced gResult
    dbProjects,   \* table projects (id -> row)
    dbTasks,      \* table tasks (id -> row)
    dbNextId,     \* the id the next inserted task gets
    dbClock,      \* the value of NOW()
    dbResponse,   \* the response of the last tool call
    dbCall,       \* the last tool call: who called, and on what
    pCalls,       \* the parse-prp calls in flight, statement by statement
    callArgs,     \* the arguments of a function called on its own
    callResult    \* what the calls of that function returned, in order

varsV == <<vTaskId, vDeps, vAllTasks, vResult>>
varsN == <<nTasks, nExcludeBlocked, nResult>>
varsG == <<gContent, gConfig, gPc, gRequests, gService, gResult, gPath>>
varsD == <<dbProjects, dbTasks, dbNextId, dbClock, dbResponse, dbCall>>
varsC == <<callArgs, callResult>>
varsP == <<pCalls>>
vars == <<vTaskId, vDeps, vAllTasks, vResult, nTasks, nExcludeBlocked, nResult,
          gContent, gConfig, gPc, gRequests, gService, gResult, gPath,
          dbProjects, dbTasks, dbNextId, dbClock, dbResponse, dbCall,
          callArgs, callResult, pCalls>>

(***************************************************************************)
(* Bounds and universes                                                    *)
(***************************************************************************)
MaxDeps == 2
MaxStoredDeps == 1
NumNextTasks == 2
MaxContentLen == 3
MaxMaxTasks == 2
MaxAITasks == 2
MaxNextDeps == 1
MaxCreatedAt == 2

TaskIds == {"t1", "t2", "t3"}
ProjectIds == {"p1", "p2"}

SeqUpTo(S, n) == UNION {[1..k -> S] : k \in 0..n}

Range(s) == {s[i] : i \in DOMAIN s}

(***************************************************************************)
(* validateTaskDependencies                                                *)
(***************************************************************************)
ErrSelf == <<"Task cannot depend on itself", "">>
ErrCycle == <<"Circular dependency detected", "">>
ErrNotFound(d) == <<"Dependency task not found", d>>
ErrOtherProject(d) == <<"Dependency task is not in the same project", d>>

\* allTasks.find(t => t.id === id) succeeds
Found(allTasks, id) == id \in DOMAIN allTasks

\* currentTaskId === taskId ? dependencies : currentTask?.dependencies || []
CurrentDeps(currentTaskId, taskId, dependencies, allTasks) ==
    IF currentTaskId = taskId THEN dependencies
    ELSE IF Found(allTasks, currentTaskId) THEN allTasks[currentTaskId].dependencies
    ELSE <<>>

RECURSIVE hasCycle(_, _, _, _, _), hasCycleLoop(_, _, _, _, _, _)

\* hasCycle without recursionStack.delete(currentTaskId)
hasCycleNoDelete(currentTaskId, taskId, dependencies, allTasks, st) ==
    IF currentTaskId \in st.recursionStack THEN [st EXCEPT !.ret = TRUE]
    ELSE IF currentTaskId \in st.visited THEN [st EXCEPT !.ret = FALSE]
    ELSE hasCycleLoop(
             CurrentDeps(currentTaskId, taskId, dependencies, allTasks),
             1, taskId, dependencies, allTasks,
             [st EXCEPT !.visited = @ \cup {currentTaskId},
                        !.recursionStack = @ \cup {currentTaskId}])

\* The closure hasCycle; st carries the two sets it shares between calls and
\* the boolean it returns.
hasCycle(currentTaskId, taskId, dependencies, allTasks, st) ==
    IF currentTaskId \in st.recursionStack THEN [st EXCEPT !.ret = TRUE]
    ELSE IF currentTaskId \in st.visited THEN [st EXCEPT !.ret = FALSE]
    ELSE LET entered == [st EXCEPT !.visited = @ \cup {currentTaskId},
                                   !.recursionStack = @ \cup {currentTaskId}]
             looped == hasCycleLoop(
                 CurrentDeps(currentTaskId, taskId, dependencies, allTasks),
                 1, taskId, dependencies, allTasks, entered)
         IN  IF looped.ret THEN looped
             ELSE [looped EXCEPT !.recursionStack = @ \ {currentTaskId},
                                 !.ret = FALSE]

\* for (const depId of currentDeps) { if (hasCycle(depId)) return true; }
hasCycleLoop(currentDeps, i, taskId, dependencies, allTasks, st) ==
    IF i > Len(currentDeps) THEN [st EXCEPT !.ret = FALSE]
    ELSE LET r == hasCycle(currentDeps[i], taskId, dependencies, allTasks, st)
         IN  IF r.ret THEN r
             ELSE hasCycleLoop(currentDeps, i + 1, taskId, dependencies, allTasks, r)

RECURSIVE ExistenceErrors(_, _, _, _)
\* The loop over dependencies that reports missing and foreign tasks
ExistenceErrors(dependencies, i, allTasks, taskProjectId) ==
    IF i > Len(dependencies) THEN <<>>
    ELSE LET depId == dependencies[i]
             here == IF ~Found(allTasks, depId) THEN <<ErrNotFound(depId)>>
                     ELSE IF allTasks[depId].projectId # taskProjectId
                          THEN <<ErrOtherProject(depId)>>
                          ELSE <<>>
         IN  here \o ExistenceErrors(dependencies, i + 1, allTasks, taskProjectId)

\* The guard of the existence checks: if (taskProjectId)
ExistenceChecked(taskId, allTasks) == Found(allTasks, taskId)

validateTaskDependencies(taskId, dependencies, allTasks) ==
    IF Len(dependencies) = 0 THEN [isValid |-> TRUE, errors |-> <<>>]
    ELSE LET selfErr == IF taskId \in Range(dependencies) THEN <<ErrSelf>> ELSE <<>>
             cyc == hasCycle(taskId, taskId, dependencies, allTasks,
                             [visited |-> {}, recursionStack |-> {}, ret |-> FALSE])
             cycErr == IF cyc.ret THEN <<ErrCycle>> ELSE <<>>
             exErr == IF ExistenceChecked(taskId, allTasks)
                      THEN ExistenceErrors(dependencies, 1, allTasks,
                                           allTasks[taskId].projectId)
                      ELSE <<>>
             errors == selfErr \o cycErr \o exErr
         IN  [isValid |-> Len(errors) = 0, errors |-> errors]

NoResult == [called |-> FALSE, isValid |-> TRUE, errors |-> <<>>]

\* The task collections: any subset of the ids, each task in some project
\* with a stored dependency list
StoredTasks(projects) ==
    UNION {[present -> [projectId : projects,
                        dependencies : SeqUpTo(TaskIds, MaxStoredDeps)]]
           : present \in SUBSET TaskIds}

Validate ==
    /\ ~vResult.called
    /\ vResult' = [called |-> TRUE] @@
                  validateTaskDependencies(vTaskId, vDeps, vAllTasks)
    /\ UNCHANGED <<vTaskId, vDeps, vAllTasks>>
    /\ UNCHANGED <<varsN, varsG, varsD, varsC, varsP>>

NoText == [kind |-> "invalid", elems |-> <<>>]
NoAnswer == [fetch |-> "none", ok |-> FALSE, body |-> "none", text |-> NoText]

NoResponse == [tool |-> "none", isError |-> FALSE, message |-> "", data |-> {}]

\* props.login of the session a tool is called in, and the projectId or
\* taskId argument of the call
Call(login, projectId, taskId) ==
    [login |-> login, projectId |-> projectId, taskId |-> taskId]

NoCall == Call("", <<>>, <<>>)

\* no parse-prp call is in flight
IdleParse == pCalls = <<>>

\* no function is called on its own
IdleCall ==
    /\ callArgs = <<>>
    /\ callResult = <<>>

\* the tables are not in use
IdleDb ==
    /\ dbProjects = <<>>
    /\ dbTasks = <<>>
    /\ dbNextId = 1
    /\ dbClock = 1
    /\ dbResponse = NoResponse
    /\ dbCall = NoCall

\* generateTasksFromPRP is not in use
IdleGen ==
    /\ gContent = <<>>
    /\ gConfig = [maxTasks |-> 0, estimateHours |-> FALSE,
                  defaultPriority |-> "medium", generateDependencies |-> FALSE]
    /\ gPc = "idle"
    /\ gRequests = 0
    /\ gService = NoAnswer
    /\ gResult = <<>>
    /\ gPath = "none"

\* findNextTask is not in use
IdleNext ==
    /\ nTasks = <<>>
    /\ nExcludeBlocked = FALSE
    /\ nResult = [called |-> FALSE, ret |-> <<>>]

InitValidate ==
    /\ vTaskId \in TaskIds
    /\ vDeps \in SeqUpTo(TaskIds, MaxDeps)
    /\ vAllTasks \in StoredTasks(ProjectIds)
    /\ vResult = NoResult
    /\ IdleNext
    /\ IdleGen
    /\ IdleDb
    /\ IdleCall
    /\ IdleParse

InitCycle ==
    /\ vTaskId \in TaskIds
    /\ vDeps \in SeqUpTo(TaskIds, MaxDeps)
    /\ vAllTasks \in StoredTasks({"p1"})
    /\ vResult = NoResult
    /\ IdleNext
    /\ IdleGen
    /\ IdleDb
    /\ IdleCall
    /\ IdleParse

NextValidate == Validate

SpecValidate == InitValidate /\ [][NextValidate]_vars
SpecCycle == InitCycle /\ [][NextValidate]_vars

(***************************************************************************)
(* The trigger validate_task_dependencies                                  *)
(*                                                                         *)
(* The trigger runs before the row NEW is written; tasks holds the rows     *)
(* stored so far.  Its outcome is the exception it raises, or RETURN NEW.   *)
(***************************************************************************)
ReturnNew == "RETURN NEW"
RaiseSameProject == "All task dependencies must be in the same project"
RaiseCircular == "Circular dependency detected"

RECURSIVE CheckLoop(_, _, _)
\* WHILE array_length(to_check, 1) > 0 LOOP ... END LOOP
CheckLoop(to_check, visited, tasks) ==
    IF to_check = <<>> THEN ReturnNew
    ELSE LET dep_id == Head(to_check)
             current_deps == IF Found(tasks, dep_id)
                             THEN tasks[dep_id].dependencies ELSE <<>>
         IN  IF dep_id \in Range(visited) THEN RaiseCircular
             ELSE CheckLoop(Tail(to_check) \o current_deps,
                            Append(visited, dep_id), tasks)

\* the function of the trigger on the row new, NEW of the trigger
validate_task_dependencies(new, tasks) ==
    IF \E i \in DOMAIN new.dependencies :
           ~(/\ Found(tasks, new.dependencies[i])
             /\ tasks[new.dependencies[i]].projectId = new.project_id)
    THEN RaiseSameProject
    ELSE CheckLoop(new.dependencies, <<new.id>>, tasks)

\* the row an INSERT of task vTaskId, or an UPDATE of its dependencies,
\* writes: the task stays in its project, a new task goes to project p1
NewRow ==
    [id |-> vTaskId,
     project_id |-> IF Found(vAllTasks, vTaskId)
                    THEN vAllTasks[vTaskId].projectId ELSE "p1",
     dependencies |-> vDeps]

\* the trigger fires on the row
Trigger ==
    /\ callResult = <<>>
    /\ callResult' = <<validate_task_dependencies(NewRow, vAllTasks)>>
    /\ UNCHANGED callArgs
    /\ UNCHANGED <<varsV, varsN, varsG, varsD, varsP>>

NextTrigger ==
    \/ Validate
    \/ Trigger

SpecTrigger == InitCycle /\ [][NextTrigger]_vars

(***************************************************************************)
(* findNextTask                                                            *)
(***************************************************************************)
Statuses == {"todo", "in_progress", "blocked", "in_review", "done"}
Priorities == {"critical", "high", "medium", "low"}

\* validateTaskDependencies is not in use
IdleValidate ==
    /\ vTaskId = "t1"
    /\ vDeps = <<>>
    /\ vAllTasks = <<>>
    /\ vResult = NoResult

priorityOrder(p) ==
    CASE p = "critical" -> 0
      [] p = "high" -> 1
      [] p = "medium" -> 2
      [] p = "low" -> 3

\* tasks.find(t => t.id === depId): the index of the first match, 0 if none
FindTask(tasks, id) ==
    IF \E i \in DOMAIN tasks : tasks[i].id = id
    THEN CHOOSE i \in DOMAIN tasks :
             /\ tasks[i].id = id
             /\ \A j \in DOMAIN tasks : tasks[j].id = id => i <= j
    ELSE 0

RECURSIVE DepsMet(_, _, _)
\* the loop over task.dependencies of the filter callback
DepsMet(tasks, deps, i) ==
    IF i > Len(deps) THEN TRUE
    ELSE LET k == FindTask(tasks, deps[i])
         IN  IF k = 0 \/ tasks[k].status # "done" THEN FALSE
             ELSE DepsMet(tasks, deps, i + 1)

\* the filter callback with the dependency loop reduced to an existence test
IsAvailableAnyStatus(tasks, task, excludeBlocked) ==
    IF task.status = "done" THEN FALSE
    ELSE IF excludeBlocked /\ task.status = "blocked" THEN FALSE
    ELSE IF task.status = "in_progress" THEN FALSE
    ELSE \A i \in DOMAIN task.dependencies :
             FindTask(tasks, task.dependencies[i]) # 0

\* the filter callback of availableTasks
IsAvailable(tasks, task, excludeBlocked) ==
    IF task.status = "done" THEN FALSE
    ELSE IF excludeBlocked /\ task.status = "blocked" THEN FALSE
    ELSE IF task.status = "in_progress" THEN FALSE
    ELSE DepsMet(tasks, task.dependencies, 1)

\* tasks.filter(...)
availableTasks(tasks, excludeBlocked) ==
    SelectSeq(tasks, LAMBDA t : IsAvailable(tasks, t, excludeBlocked))

\* the comparator preferring the newer of two tasks of one priority
CompareNewerFirst(a, b) ==
    LET priorityDiff == priorityOrder(a.priority) - priorityOrder(b.priority)
    IN  IF priorityDiff # 0 THEN priorityDiff
        ELSE b.createdAt - a.createdAt

\* the comparator given to sort
Compare(a, b) ==
    LET priorityDiff == priorityOrder(a.priority) - priorityOrder(b.priority)
    IN  IF priorityDiff # 0 THEN priorityDiff
        ELSE a.createdAt - b.createdAt

\* insert x into the sorted sequence s after every element that is not
\* greater (Array.prototype.sort is stable)
RECURSIVE InsertSorted(_, _)
InsertSorted(s, x) ==
    IF s = <<>> THEN <<x>>
    ELSE IF Compare(Head(s), x) <= 0 THEN <<Head(s)>> \o InsertSorted(Tail(s), x)
    ELSE <<x>> \o s

RECURSIVE SortTasks(_)
SortTasks(s) ==
    IF s = <<>> THEN <<>>
    ELSE InsertSorted(SortTasks(SubSeq(s, 1, Len(s) - 1)), s[Len(s)])

findNextTask(tasks, excludeBlocked) ==
    LET available == availableTasks(tasks, excludeBlocked)
    IN  IF Len(available) = 0 THEN <<>>
        ELSE <<SortTasks(available)[1]>>

FindNext ==
    /\ ~nResult.called
    /\ nResult' = [called |-> TRUE, ret |-> findNextTask(nTasks, nExcludeBlocked)]
    /\ UNCHANGED <<nTasks, nExcludeBlocked>>
    /\ UNCHANGED <<varsV, varsG, varsD, varsC, varsP>>

\* dependency lists over the ids 1..NumNextTasks (an id beyond the length of
\* the array resolves to no task)
AnyDeps(i) == SeqUpTo(1..NumNextTasks, MaxNextDeps)

\* no dependency, or the task before this one in the array
ChainDeps(i) == IF i = 1 THEN {<<>>} ELSE {<<>>, <<i - 1>>}

DepLists(shape, i) == IF shape = "chain" THEN ChainDeps(i) ELSE AnyDeps(i)

\* arrays of at most NumNextTasks tasks; the task at index i has id i
TaskArrays(statuses, priorities, times, shape) ==
    UNION {{a \in [1..n -> [id : 1..n, status : statuses, priority : priorities,
                            createdAt : times,
                            dependencies : UNION {DepLists(shape, i) : i \in 1..n}]] :
               \A i \in 1..n : a[i].id = i /\ a[i].dependencies \in DepLists(shape, i)}
           : n \in 0..NumNextTasks}

\* every status and dependency list, one priority and one creation time
InitNext ==
    /\ nTasks \in TaskArrays(Statuses, {"medium"}, {1}, "any")
    /\ nExcludeBlocked \in BOOLEAN
    /\ nResult = [called |-> FALSE, ret |-> <<>>]
    /\ IdleValidate
    /\ IdleGen
    /\ IdleDb
    /\ IdleCall
    /\ IdleParse

\* every priority and creation time, dependencies along the array, and a
\* status for each way the filter and the dependency test treat a task
\* (in_review passes as todo does, in_progress is left out as done is)
InitRank ==
    /\ nTasks \in TaskArrays({"todo", "blocked", "done"}, Priorities,
                             1..MaxCreatedAt, "chain")
    /\ nExcludeBlocked \in BOOLEAN
    /\ nResult = [called |-> FALSE, ret |-> <<>>]
    /\ IdleValidate
    /\ IdleGen
    /\ IdleDb
    /\ IdleCall
    /\ IdleParse

NextFindNext == FindNext

SpecNext == InitNext /\ [][NextFindNext]_vars
SpecRank == InitRank /\ [][NextFindNext]_vars

(***************************************************************************)
(* PRPParser: the task generation pipeline                                 *)
(*                                                                         *)
(* A text is a sequence of units: a keyword, a line feed, a blank, or some *)
(* other word.  A JSON value of the completion service is a record with    *)
(* its type in kind; the fields of an object carry the type of their value *)
(* ("absent" for a missing field).                                         *)
(***************************************************************************)
FallbackKeywords == {"implement", "create", "build", "code", "function",
                     "class", "component", "api", "test"}
UrgencyWords == {"critical", "must"}
Whitespace == {" ", "\n"}

\* line.includes(w) for one of the words
IncludesAny(line, words) == \E i \in DOMAIN line : line[i] \in words

RECURSIVE SplitLines(_)
\* prpContent.split('\n')
SplitLines(text) ==
    IF \A i \in DOMAIN text : text[i] # "\n" THEN <<text>>
    ELSE LET k == CHOOSE i \in DOMAIN text :
                      /\ text[i] = "\n"
                      /\ \A j \in 1..(i - 1) : text[j] # "\n"
         IN  <<SubSeq(text, 1, k - 1)>> \o SplitLines(SubSeq(text, k + 1, Len(text)))

RECURSIVE TrimStart(_), TrimEnd(_)
TrimStart(line) ==
    IF line # <<>> /\ Head(line) \in Whitespace THEN TrimStart(Tail(line)) ELSE line

TrimEnd(line) ==
    IF line # <<>> /\ line[Len(line)] \in Whitespace
    THEN TrimEnd(SubSeq(line, 1, Len(line) - 1)) ELSE line

\* String.prototype.trim
Trim(line) == TrimEnd(TrimStart(line))

TitleLength == 100

\* str.substring(0, 100), a unit of the text counted as a character
Substring100(str) == SubSeq(str, 1, IF Len(str) < TitleLength THEN Len(str) ELSE TitleLength)

\* Math.floor(Math.random() * 8) + 1, in hours
RandomHours == 1..8

ValidationReminder == "Validation gates: Run tests and type checking after implementation."

RECURSIVE PreviewLoop(_, _, _, _, _)
\* the loop over the non-blank lines; rnd holds the draws of Math.random,
\* one for each task
PreviewLoop(lines, i, tasks, config, rnd) ==
    IF i > Len(lines) THEN tasks
    ELSE IF IncludesAny(lines[i], FallbackKeywords)
    THEN LET task == [title |-> Trim(Substring100(lines[i])),
                      description |-> Trim(lines[i]) \o <<"\n", "\n", ValidationReminder>>,
                      priority |-> IF IncludesAny(lines[i], UrgencyWords)
                                   THEN "high" ELSE "medium",
                      estimatedHours |-> IF config.estimateHours
                                         THEN <<10 * rnd[Len(tasks) + 1]>> ELSE <<>>,
                      dependencies |-> <<>>]
             pushed == Append(tasks, task)
         IN  IF Len(pushed) >= config.maxTasks THEN pushed
             ELSE PreviewLoop(lines, i + 1, pushed, config, rnd)
    ELSE PreviewLoop(lines, i + 1, tasks, config, rnd)

\* prpContent.split('\n').filter(line => line.trim())
NonBlankLines(prpContent) ==
    SelectSeq(SplitLines(prpContent), LAMBDA line : Trim(line) # <<>>)

parsePreviewPRP(prpContent, config, rnd) ==
    PreviewLoop(NonBlankLines(prpContent), 1, <<>>, config, rnd)

\* the number of calls of Math.random in parsePreviewPRP
RandomDraws(prpContent, config) ==
    IF config.estimateHours
    THEN Len(parsePreviewPRP(prpContent, [config EXCEPT !.estimateHours = FALSE], <<>>))
    ELSE 0

MinHours == 5
MaxHours == 400

\* Math.max(0.5, Math.min(40, h))
ClampHours(h) ==
    LET m == IF h < MaxHours THEN h ELSE MaxHours
    IN  IF m > MinHours THEN m ELSE MinHours

\* the callback of map throws a TypeError on this element
ElementThrows(task) ==
    \/ task.kind = "null"
    \/ task.kind = "object" /\ task.title = "number"

\* task.title?.substring(0, 100) || `Generated Implementation Task ${index + 1}`
NormalTitle(task, index) ==
    IF task.kind = "object" /\ task.title = "string"
    THEN Substring100(<<"AI title">>)
    ELSE <<"Generated Implementation Task", ToString(index)>>

\* task.description || task.title || `Implementation task ${index + 1}`
NormalDescription(task, index) ==
    IF task.kind = "object" /\ task.description = "string" THEN <<"AI description">>
    ELSE IF task.kind = "object" /\ task.title = "string" THEN <<"AI title">>
    ELSE <<"Implementation task", ToString(index)>>

\* the guard of the clamp without the truthiness test of task.estimatedHours
HoursKeptAnyNumber(task, config) ==
    /\ config.estimateHours
    /\ task.kind = "object"
    /\ task.hoursType = "number"

\* config.estimateHours && task.estimatedHours &&
\* typeof task.estimatedHours === 'number'
HoursKept(task, config) ==
    /\ config.estimateHours
    /\ task.kind = "object"
    /\ task.hoursType = "number"
    /\ task.hours # 0

\* the callback of map, for an element it does not throw on
NormalizeTask(task, index, config) ==
    [title |-> NormalTitle(task, index),
     description |-> NormalDescription(task, index),
     priority |-> IF task.kind = "object" /\ task.priority \in Priorities
                  THEN task.priority ELSE config.defaultPriority,
     estimatedHours |-> IF HoursKept(task, config)
                        THEN <<ClampHours(task.hours)>> ELSE <<>>,
     dependencies |-> <<>>]

\* aiTasks.slice(0, config.maxTasks)
SliceMax(elems, maxTasks) ==
    SubSeq(elems, 1, IF Len(elems) < maxTasks THEN Len(elems) ELSE maxTasks)

\* validateAndNormalizeTasks: threw is set when slice or map is no function
\* of the parsed value or the callback throws
validateAndNormalizeTasks(aiTasks, config) ==
    IF aiTasks.kind # "array" THEN [threw |-> TRUE, tasks |-> <<>>]
    ELSE LET kept == SliceMax(aiTasks.elems, config.maxTasks)
         IN  IF \E i \in DOMAIN kept : ElementThrows(kept[i])
             THEN [threw |-> TRUE, tasks |-> <<>>]
             ELSE [threw |-> FALSE,
                   tasks |-> [i \in DOMAIN kept |-> NormalizeTask(kept[i], i, config)]]

\* JSON.parse(content): the text is a JSON document
ParsesAsJSON(text) == text.kind \notin {"invalid", "prose", "wrapped"}

\* lines 49-56 once response.json() has resolved to result
TryBlockTail(result, config) ==
    IF result.kind # "message" THEN [threw |-> TRUE, tasks |-> <<>>]
    ELSE IF ~ParsesAsJSON(result.text) THEN [threw |-> TRUE, tasks |-> <<>>]
    ELSE validateAndNormalizeTasks(result.text, config)

\* the elements a JSON array of the service is made of
Obj(title, description, priority, hoursType, hours) ==
    [kind |-> "object", title |-> title, description |-> description,
     priority |-> priority, hoursType |-> hoursType, hours |-> hours]

AIElements ==
    {[kind |-> "null", title |-> "absent", description |-> "absent",
      priority |-> "absent", hoursType |-> "absent", hours |-> 0],
     [kind |-> "number", title |-> "absent", description |-> "absent",
      priority |-> "absent", hoursType |-> "absent", hours |-> 0],
     Obj("absent", "absent", "absent", "absent", 0),
     Obj("number", "string", "bogus", "number", 30),
     Obj("string", "string", "high", "absent", 0),
     Obj("string", "string", "high", "string", 0),
     Obj("string", "string", "high", "number", 0 - 10),
     Obj("string", "string", "high", "number", 0),
     Obj("string", "string", "high", "number", 30),
     Obj("string", "string", "high", "number", 410)}

\* a well-formed task object
WellFormedElement == Obj("string", "string", "high", "number", 30)

\* the texts the service puts into content[0].text; a text of kind
\* "wrapped" is the well-formed JSON array elems with prose around it
AITexts ==
    {[kind |-> k, elems |-> <<>>] :
         k \in {"invalid", "prose", "object", "number", "string", "null"}}
    \cup {[kind |-> "array", elems |-> e] : e \in SeqUpTo(AIElements, MaxAITasks)}
    \cup {[kind |-> "wrapped", elems |-> e] :
             e \in SeqUpTo({WellFormedElement}, MaxAITasks) \ {<<>>}}

\* a catch block that throws the error on to the caller
CatchRethrows ==
    /\ gPc' = "failed"
    /\ UNCHANGED <<gRequests, gResult, gPath>>

\* a catch block that starts the call over
CatchRetries ==
    /\ gPc' = "start"
    /\ UNCHANGED <<gRequests, gResult, gPath>>

\* the catch block: log, then return the fallback list
Catch ==
    \E rnd \in [1..RandomDraws(gContent, gConfig) -> RandomHours] :
        /\ gResult' = parsePreviewPRP(gContent, gConfig, rnd)
        /\ gPath' = "fallback"
        /\ gPc' = "done"
        /\ UNCHANGED gRequests

\* await fetch(...) is reached: the one request goes out
Fetch ==
    /\ gPc = "start"
    /\ gRequests' = gRequests + 1
    /\ gPc' = "fetching"
    /\ UNCHANGED <<gContent, gConfig, gService, gResult, gPath>>
    /\ UNCHANGED <<varsV, varsN, varsD, varsC, varsP>>

\* fetch rejects (network failure)
FetchRejects ==
    /\ gPc = "fetching"
    /\ gService' = [gService EXCEPT !.fetch = "rejected"]
    /\ Catch
    /\ UNCHANGED <<gContent, gConfig>>
    /\ UNCHANGED <<varsV, varsN, varsD, varsC, varsP>>

\* fetch resolves to a response; a response that is not ok is thrown
FetchResolves ==
    /\ gPc = "fetching"
    /\ \E ok \in BOOLEAN :
          /\ gService' = [gService EXCEPT !.fetch = "resolved", !.ok = ok]
          /\ IF ok
             THEN /\ gPc' = "reading"
                  /\ UNCHANGED <<gRequests, gResult, gPath>>
             ELSE Catch
    /\ UNCHANGED <<gContent, gConfig>>
    /\ UNCHANGED <<varsV, varsN, varsD, varsC, varsP>>

\* await response.json() rejects: the body is no JSON document
BodyRejects ==
    /\ gPc = "reading"
    /\ gService' = [gService EXCEPT !.body = "unreadable"]
    /\ Catch
    /\ UNCHANGED <<gContent, gConfig>>
    /\ UNCHANGED <<varsV, varsN, varsD, varsC, varsP>>

\* await response.json() resolves: the rest of the try block runs
BodyResolves ==
    /\ gPc = "reading"
    /\ \E body \in {"nocontent", "message"} :
       \E text \in (IF body = "message" THEN AITexts ELSE {NoText}) :
          LET tail == TryBlockTail([kind |-> body, text |-> text], gConfig)
          IN  /\ gService' = [gService EXCEPT !.body = body, !.text = text]
              /\ IF tail.threw
                 THEN Catch
                 ELSE /\ gResult' = tail.tasks
                      /\ gPath' = "ai"
                      /\ gPc' = "done"
                      /\ UNCHANGED gRequests
    /\ UNCHANGED <<gContent, gConfig>>
    /\ UNCHANGED <<varsV, varsN, varsD, varsC, varsP>>

\* the units of a content: a keyword, a capitalised keyword (to includes
\* any other word) and the line feed
GenUnits == {"implement", "Implement", "\n"}

GenConfigs ==
    [maxTasks : 0..MaxMaxTasks, estimateHours : BOOLEAN,
     defaultPriority : {"medium"}, generateDependencies : {FALSE}]

InitGen ==
    /\ gContent \in SeqUpTo(GenUnits, MaxContentLen)
    /\ gConfig \in GenConfigs
    /\ gPc = "start"
    /\ gRequests = 0
    /\ gService = NoAnswer
    /\ gResult = <<>>
    /\ gPath = "none"
    /\ IdleValidate
    /\ IdleNext
    /\ IdleDb
    /\ IdleCall
    /\ IdleParse

NextGen ==
    \/ Fetch
    \/ FetchRejects
    \/ FetchResolves
    \/ BodyRejects
    \/ BodyResolves

SpecGen == InitGen /\ [][NextGen]_vars

(***************************************************************************)
(* The tools working on the projects and tasks tables                      *)
(*                                                                         *)
(* A row of tasks is a record of its columns; a nullable column holds <<>> *)
(* for NULL and <<v>> for the value v.  dbClock is the value NOW() yields; *)
(* it advances with every call that writes.  A handler runs its statements *)
(* without another call in between.                                        *)
(***************************************************************************)
MaxTaskRows == 2
MaxClock == 3

Users == {"coleam00", "guest"}
ALLOWED_USERNAMES == {"coleam00"}

\* registerTaskTools: const isPrivileged = ALLOWED_USERNAMES.has(props.login)
isPrivilegedAlways(login) == TRUE

isPrivileged(login) == login \in ALLOWED_USERNAMES

\* the tools registerTaskTools registers in the session of login
registerTaskTools(login) ==
    {"task-list", "task-next", "task-get"}
    \cup (IF isPrivileged(login) THEN {"task-update"} ELSE {})
    \cup (IF isPrivileged(login) THEN {"task-complete"} ELSE {})

\* projectUserId === currentUser.login
checkProjectPermission(projectUserId, login) == projectUserId = login

ValidateKeywords == FallbackKeywords \cup {"validate"}

\* a unit standing for fifty characters that spell no keyword
Filler == "fifty other characters"
MinContentLength == 50
MaxContentLength == 50000

\* a unit of nine characters less, and a unit that fills a content of
\* MinContentLength characters up to MaxContentLength
ShortFiller == "forty-one other characters"
Bulk == "very many other characters"

\* the number of characters of a unit of text
UnitLength(u) ==
    CASE u = Filler -> MinContentLength
      [] u = ShortFiller -> MinContentLength - 9
      [] u = Bulk -> MaxContentLength - MinContentLength
      [] u \in {"implement", "Implement", "component"} -> 9
      [] u \in {"function", "validate", "Validate"} -> 8
      [] u = "create" -> 6
      [] u \in {"build", "class"} -> 5
      [] u \in {"code", "test"} -> 4
      [] u = "api" -> 3
      [] OTHER -> 1

RECURSIVE Length(_)
\* content.length
Length(content) ==
    IF content = <<>> THEN 0 ELSE UnitLength(Head(content)) + Length(Tail(content))

\* String.prototype.toLowerCase, on one unit
ToLowerCase(u) ==
    CASE u = "Implement" -> "implement"
      [] u = "Validate" -> "validate"
      [] OTHER -> u

\* the test for a keyword without toLowerCase
hasContextCaseSensitive(content) ==
    \E i \in DOMAIN content : content[i] \in ValidateKeywords

\* content.toLowerCase().includes(w) for one of the ten words
hasImplementationContext(content) ==
    \E i \in DOMAIN content : ToLowerCase(content[i]) \in ValidateKeywords

validatePRPContent(content) ==
    LET errors ==
            (IF Trim(content) = <<>>
             THEN <<"PRP content cannot be empty">> ELSE <<>>)
            \o (IF Length(content) < MinContentLength
                THEN <<"PRP content is too short to be meaningful">> ELSE <<>>)
            \o (IF Length(content) > MaxContentLength
                THEN <<"PRP content exceeds maximum length of 50,000 characters">>
                ELSE <<>>)
            \o (IF ~hasImplementationContext(content)
                THEN <<"PRP content should contain implementation instructions, code patterns, or technical specifications">>
                ELSE <<>>)
    IN  [isValid |-> errors = <<>>, errors |-> errors]

\* content.replace(/[<>]/g, '')
RemoveAngles(content) == SelectSeq(content, LAMBDA u : u \notin {"<", ">"})

\* content.replace(/['"]/g, '"')
NormalizeQuotes(content) ==
    [i \in DOMAIN content |-> IF content[i] \in {"'", "\""} THEN "\"" ELSE content[i]]

\* a sanitizer that trims before it removes the angle brackets
sanitizeTrimFirst(content) == NormalizeQuotes(RemoveAngles(Trim(content)))

sanitizePRPContent(content) == Trim(NormalizeQuotes(RemoveAngles(content)))

\* generateTasksFromPRP as one call: answer is what the completion service
\* does with the request, rnd the draws of Math.random of the fallback
generateTasksFromPRP(prpContent, config, answer, rnd) ==
    LET tail == IF answer.fetch = "rejected" \/ ~answer.ok
                   \/ answer.body = "unreadable"
                THEN [threw |-> TRUE, tasks |-> <<>>]
                ELSE TryBlockTail([kind |-> answer.body, text |-> answer.text],
                                  config)
    IN  IF tail.threw THEN parsePreviewPRP(prpContent, config, rnd)
        ELSE tail.tasks

DefaultMaxTasks == 10

\* the config parse-prp hands to the parser
ToolConfig(maxTasks) ==
    [maxTasks |-> IF maxTasks = 0 THEN DefaultMaxTasks ELSE maxTasks,
     estimateHours |-> TRUE,
     defaultPriority |-> "medium",
     generateDependencies |-> FALSE]

\* the row INSERT INTO tasks creates for a generated task
InsertedRow(projectId, task, now) ==
    [project_id |-> projectId,
     title |-> task.title,
     description |-> <<task.description>>,
     status |-> "todo",
     priority |-> task.priority,
     dependencies |-> task.dependencies,
     assignee |-> <<>>,
     estimated_hours |-> IF task.estimatedHours # <<>> /\ task.estimatedHours[1] # 0
                         THEN task.estimatedHours ELSE <<>>,
     actual_hours |-> <<>>,
     notes |-> <<>>,
     created_at |-> now,
     updated_at |-> now,
     completed_at |-> <<>>]

\* createErrorResponse with details: the call answers and writes nothing;
\* data is the set of projects the details tell something of
ErrorDetails(tool, message, data) ==
    /\ dbResponse' = [tool |-> tool, isError |-> TRUE, message |-> message,
                      data |-> data]
    /\ UNCHANGED <<dbProjects, dbTasks, dbNextId, dbClock>>

\* createErrorResponse and its kin without details of a project
ErrorResponse(tool, message) == ErrorDetails(tool, message, {})

\* createSuccessResponse and createInfoResponse: data is the set of projects
\* whose rows or tasks the text shows
SuccessResponse(tool, message, data) ==
    dbResponse' = [tool |-> tool, isError |-> FALSE, message |-> message,
                   data |-> data]

\* SELECT ... FROM projects WHERE id = projectId returns a row
SelectAnyProject(projectId, login) == projectId \in DOMAIN dbProjects

\* SELECT ... FROM projects WHERE id = projectId AND user_id = login
\* returns a row
SelectOwnProject(projectId, login) ==
    /\ projectId \in DOMAIN dbProjects
    /\ dbProjects[projectId].user_id = login

ProjectTasks(projectId) == {id \in DOMAIN dbTasks : dbTasks[id].project_id = projectId}

\* the contents, answers and draws the tools are called with
ToolContents ==
    {<<"implement", " ", Filler>>, <<"Implement", " ", Filler>>, <<"x">>}

ToolAnswers ==
    {[fetch |-> "rejected", ok |-> FALSE, body |-> "none", text |-> NoText],
     [fetch |-> "resolved", ok |-> TRUE, body |-> "message",
      text |-> [kind |-> "array",
                elems |-> <<Obj("string", "string", "high", "number", 30),
                            Obj("string", "string", "low", "absent", 0)>>]]}

ToolRandomHours == {1, 8}

\* the handler of parse-prp, called by login on projectId
ParsePrpCall(login, projectId) ==
    \E prpContent \in ToolContents,
       maxTasks \in 1..MaxMaxTasks, overwriteExisting \in BOOLEAN,
       answer \in ToolAnswers :
        LET validation == validatePRPContent(prpContent)
            sanitizedContent == sanitizePRPContent(prpContent)
            config == ToolConfig(maxTasks)
        IN  IF ~validation.isValid
            THEN ErrorResponse("parse-prp", "Invalid PRP content")
            ELSE IF ~SelectOwnProject(projectId, login)
            THEN ErrorResponse("parse-prp", "Project not found or access denied")
            ELSE IF ~overwriteExisting /\ ProjectTasks(projectId) # {}
            THEN ErrorDetails("parse-prp", "Project already has tasks",
                              {projectId})
            ELSE \E rnd \in [1..RandomDraws(sanitizedContent, config)
                               -> ToolRandomHours] :
                   LET aiTasks == generateTasksFromPRP(sanitizedContent, config,
                                                       answer, rnd)
                       kept == IF overwriteExisting
                               THEN DOMAIN dbTasks \ ProjectTasks(projectId)
                               ELSE DOMAIN dbTasks
                       newIds == dbNextId..(dbNextId + Len(aiTasks) - 1)
                   IN  /\ dbClock < MaxClock
                       /\ dbNextId + Len(aiTasks) - 1 <= MaxTaskRows
                       /\ dbTasks' =
                              [id \in kept \cup newIds |->
                                  IF id \in newIds
                                  THEN InsertedRow(projectId,
                                                   aiTasks[id - dbNextId + 1],
                                                   dbClock)
                                  ELSE dbTasks[id]]
                       /\ dbNextId' = dbNextId + Len(aiTasks)
                       /\ dbProjects' =
                              [dbProjects EXCEPT
                                  ![projectId].prp_content = <<sanitizedContent>>,
                                  ![projectId].updated_at = dbClock]
                       /\ dbClock' = dbClock + 1
                       /\ SuccessResponse("parse-prp", "PRP parsed successfully",
                                          {projectId})

ParsePrp ==
    /\ \E login \in Users, projectId \in ProjectIds :
          /\ ParsePrpCall(login, projectId)
          /\ dbCall' = Call(login, <<projectId>>, <<>>)
    /\ UNCHANGED <<varsV, varsN, varsG, varsC, varsP>>

Absent(args) ==
    /\ args.title = <<>> /\ args.description = <<>> /\ args.status = <<>>
    /\ args.priority = <<>> /\ args.assignee = <<>>
    /\ args.estimatedHours = <<>> /\ args.actualHours = <<>> /\ args.notes = <<>>

\* the row after the UPDATE statements of task-update
UpdatedRow(task, args, now) ==
    [task EXCEPT
        !.title = IF args.title # <<>> THEN args.title[1] ELSE @,
        !.description = IF args.description # <<>> THEN args.description ELSE @,
        !.status = IF args.status # <<>> THEN args.status[1] ELSE @,
        !.priority = IF args.priority # <<>> THEN args.priority[1] ELSE @,
        !.assignee = IF args.assignee # <<>> THEN args.assignee ELSE @,
        !.estimated_hours = IF args.estimatedHours # <<>>
                            THEN args.estimatedHours ELSE @,
        !.actual_hours = IF args.actualHours # <<>> THEN args.actualHours ELSE @,
        !.notes = IF args.notes # <<>> THEN args.notes ELSE @,
        !.updated_at = now]

NoArgs ==
    [title |-> <<>>, description |-> <<>>, status |-> <<>>, priority |-> <<>>,
     assignee |-> <<>>, estimatedHours |-> <<>>, actualHours |-> <<>>,
     notes |-> <<>>]

\* the arguments task-update is called with
UpdateArgs ==
    {NoArgs}
    \cup {[NoArgs EXCEPT !.status = <<s>>] : s \in Statuses}
    \cup {[NoArgs EXCEPT !.actualHours = <<20>>, !.notes = <<"update note">>],
          [NoArgs EXCEPT !.title = <<<<"new title">>>>, !.priority = <<"low">>,
                         !.assignee = <<"coleam00">>],
          [NoArgs EXCEPT !.description = <<<<"new description">>>>,
                         !.estimatedHours = <<30>>]}

\* the handler of task-update, a tool of the privileged users, called by
\* login on taskId
TaskUpdateCall(login, taskId) ==
    \E args \in UpdateArgs :
        /\ "task-update" \in registerTaskTools(login)
        /\ IF taskId \notin DOMAIN dbTasks
           THEN ErrorResponse("task-update", "Task not found")
           ELSE IF ~checkProjectPermission(
                        dbProjects[dbTasks[taskId].project_id].user_id, login)
           THEN ErrorResponse("task-update", "Permission denied")
           ELSE IF Absent(args)
           THEN ErrorResponse("task-update", "No updates provided")
           ELSE /\ dbClock < MaxClock
                /\ dbTasks' = [dbTasks EXCEPT
                                  ![taskId] = UpdatedRow(@, args, dbClock)]
                /\ dbClock' = dbClock + 1
                /\ SuccessResponse("task-update", "Task updated successfully",
                                   {dbTasks[taskId].project_id})
                /\ UNCHANGED <<dbProjects, dbNextId>>

TaskUpdate ==
    /\ \E login \in Users, taskId \in 1..MaxTaskRows :
          /\ TaskUpdateCall(login, taskId)
          /\ dbCall' = Call(login, <<>>, <<taskId>>)
    /\ UNCHANGED <<varsV, varsN, varsG, varsC, varsP>>

\* a || b on nullable numbers: 0 is falsy
OrElseNumber(a, b) == IF a # <<>> /\ a[1] # 0 THEN a ELSE b

\* a || b on nullable strings: the empty string is falsy
OrElseString(a, b) == IF a # <<>> /\ a[1] # "" THEN a ELSE b

\* the row after the UPDATE statement of task-complete
CompletedRow(task, actualHours, notes, now) ==
    [task EXCEPT
        !.status = "done",
        !.actual_hours = OrElseNumber(actualHours, @),
        !.notes = OrElseString(notes, @),
        !.completed_at = <<now>>,
        !.updated_at = now]

\* a test of the status that never finds a task done
IsDoneNever(task) == FALSE

\* task.status === TaskStatus.DONE
IsDone(task) == task.status = "done"

\* the handler of task-complete, a tool of the privileged users, called by
\* login on taskId
TaskCompleteCall(login, taskId, actualHours, notes) ==
    /\ "task-complete" \in registerTaskTools(login)
    /\ IF taskId \notin DOMAIN dbTasks
       THEN ErrorResponse("task-complete", "Task not found")
       ELSE IF ~checkProjectPermission(
                    dbProjects[dbTasks[taskId].project_id].user_id, login)
       THEN ErrorResponse("task-complete", "Permission denied")
       ELSE IF IsDone(dbTasks[taskId])
       THEN ErrorResponse("task-complete", "Task is already completed")
       ELSE /\ dbClock < MaxClock
            /\ dbTasks' = [dbTasks EXCEPT
                              ![taskId] = CompletedRow(@, actualHours, notes,
                                                       dbClock)]
            /\ dbClock' = dbClock + 1
            /\ SuccessResponse("task-complete", "Task completed successfully",
                               {dbTasks[taskId].project_id})
            /\ UNCHANGED <<dbProjects, dbNextId>>

TaskComplete ==
    /\ \E login \in Users, taskId \in 1..MaxTaskRows,
          actualHours \in {<<>>, <<10>>},
          notes \in {<<>>, <<"completion note">>} :
          /\ TaskCompleteCall(login, taskId, actualHours, notes)
          /\ dbCall' = Call(login, <<>>, <<taskId>>)
    /\ UNCHANGED <<varsV, varsN, varsG, varsC, varsP>>

\* the owner of each project
ProjectOwner(projectId) == IF projectId = "p1" THEN "coleam00" ELSE "guest"

InitTools ==
    /\ dbProjects = [p \in ProjectIds |->
                        [user_id |-> ProjectOwner(p), name |-> "alpha",
                         status |-> "planning", prp_content |-> <<>>,
                         context |-> {}, updated_at |-> 0]]
    /\ dbTasks = <<>>
    /\ dbNextId = 1
    /\ dbClock = 1
    /\ dbResponse = NoResponse
    /\ dbCall = NoCall
    /\ IdleValidate
    /\ IdleNext
    /\ IdleGen
    /\ IdleCall
    /\ IdleParse

NextTools ==
    \/ ParsePrp
    \/ TaskUpdate
    \/ TaskComplete

SpecTools == InitTools /\ [][NextTools]_vars

(***************************************************************************)
(* parsePreviewPRP called on its own, twice on the same arguments          *)
(***************************************************************************)
FallbackRuns == 2

\* one run of parsePreviewPRP(prpContent, projectContext, config)
RunFallback ==
    /\ Len(callResult) < FallbackRuns
    /\ \E rnd \in [1..RandomDraws(callArgs.prpContent, callArgs.config)
                     -> RandomHours] :
          callResult' = Append(callResult,
                               parsePreviewPRP(callArgs.prpContent,
                                               callArgs.config, rnd))
    /\ UNCHANGED callArgs
    /\ UNCHANGED <<varsV, varsN, varsG, varsD, varsP>>

InitFallback ==
    /\ callArgs \in [prpContent : SeqUpTo(GenUnits, MaxContentLen),
                      config : GenConfigs]
    /\ callResult = <<>>
    /\ IdleValidate
    /\ IdleNext
    /\ IdleGen
    /\ IdleDb
    /\ IdleParse

NextFallback == RunFallback

SpecFallback == InitFallback /\ [][NextFallback]_vars

(***************************************************************************)
(* sanitizePRPContent called on its own, and then on what it returned      *)
(***************************************************************************)
MaxSanitizeLen == 3
SanitizeRuns == 2

SanitizeUnits == {"<", ">", "'", "\"", " ", "\n", "a"}

\* sanitizePRPContent(x), then sanitizePRPContent of the returned string
Sanitize ==
    /\ Len(callResult) < SanitizeRuns
    /\ callResult' = Append(callResult,
                            sanitizePRPContent(IF callResult = <<>>
                                               THEN callArgs
                                               ELSE callResult[Len(callResult)]))
    /\ UNCHANGED callArgs
    /\ UNCHANGED <<varsV, varsN, varsG, varsD, varsP>>

InitSanitize ==
    /\ callArgs \in SeqUpTo(SanitizeUnits, MaxSanitizeLen)
    /\ callResult = <<>>
    /\ IdleValidate
    /\ IdleNext
    /\ IdleGen
    /\ IdleDb
    /\ IdleParse

NextSanitize == Sanitize

SpecSanitize == InitSanitize /\ [][NextSanitize]_vars

(***************************************************************************)
(* validatePRPContent called on its own                                    *)
(***************************************************************************)
MaxValidateLen == 3

ValidateUnits == {" ", "a", "implement", "Validate", ShortFiller, Filler, Bulk}

ValidateContent ==
    /\ callResult = <<>>
    /\ callResult' = <<validatePRPContent(callArgs)>>
    /\ UNCHANGED callArgs
    /\ UNCHANGED <<varsV, varsN, varsG, varsD, varsP>>

InitContent ==
    /\ callArgs \in SeqUpTo(ValidateUnits, MaxValidateLen)
    /\ callResult = <<>>
    /\ IdleValidate
    /\ IdleNext
    /\ IdleGen
    /\ IdleDb
    /\ IdleParse

NextContent == ValidateContent

SpecContent == InitContent /\ [][NextContent]_vars

(***************************************************************************)
(* calculateProjectAnalytics called on its own                             *)
(*                                                                         *)
(* A value of estimatedHours or actualHours is a record of its JavaScript  *)
(* type with the number n (in tenths of an hour) or the text of a string.  *)
(* A quotient a / b is kept as the fraction [num |-> a, den |-> b]; the    *)
(* rounding of the floating-point division is left out.                    *)
(***************************************************************************)
MaxAnalyticsTasks == 2

Undefined == [type |-> "undefined", n |-> 0, text |-> ""]
Null == [type |-> "null", n |-> 0, text |-> ""]
Number(n) == [type |-> "number", n |-> n, text |-> ""]
String(text) == [type |-> "string", n |-> 0, text |-> text]

\* parseFloat(value): <<>> is NaN
parseFloat(text) == IF text = "1.5" THEN <<15>> ELSE <<>>

\* safeToNumber
safeToNumber(value) ==
    CASE value.type \in {"null", "undefined"} -> 0
      [] value.type = "string" ->
             IF parseFloat(value.text) = <<>> THEN 0 ELSE parseFloat(value.text)[1]
      [] value.type = "number" -> value.n
      [] OTHER -> 0

\* the value is truthy
Truthy(value) ==
    \/ value.type = "number" /\ value.n # 0
    \/ value.type = "string" /\ value.text # ""

RECURSIVE SumHours(_, _)
\* tasks.reduce((sum, task) => sum + safeToNumber(task[field]), 0)
SumHours(tasks, field) ==
    IF tasks = <<>> THEN 0
    ELSE SumHours(SubSeq(tasks, 1, Len(tasks) - 1), field)
         + safeToNumber(tasks[Len(tasks)][field])

Fraction(a, b) == [num |-> a, den |-> b]
Zero == Fraction(0, 1)

\* tasks.filter(t => t.status === status).length
CountStatus(tasks, status) ==
    Len(SelectSeq(tasks, LAMBDA t : t.status = status))

\* the ratio turned upside down
efficiencyInverted(totalEstimatedHours, totalActualHours) ==
    IF totalEstimatedHours > 0 /\ totalActualHours > 0
    THEN Fraction(totalActualHours * 100, totalEstimatedHours)
    ELSE Zero

efficiencyRatio(totalEstimatedHours, totalActualHours) ==
    IF totalEstimatedHours > 0 /\ totalActualHours > 0
    THEN Fraction(totalEstimatedHours * 100, totalActualHours)
    ELSE Zero

calculateProjectAnalytics(tasks) ==
    LET totalTasks == Len(tasks)
        completedTasks == CountStatus(tasks, "done")
        totalEstimatedHours == SumHours(tasks, "estimatedHours")
        totalActualHours == SumHours(tasks, "actualHours")
        completedTasksWithHours ==
            SelectSeq(tasks, LAMBDA t : t.status = "done" /\ Truthy(t.actualHours)
                                         /\ t.completedAt)
    IN  [totalTasks |-> totalTasks,
         completedTasks |-> completedTasks,
         inProgressTasks |-> CountStatus(tasks, "in_progress"),
         blockedTasks |-> CountStatus(tasks, "blocked"),
         completionRate |-> IF totalTasks > 0
                            THEN Fraction(completedTasks * 100, totalTasks)
                            ELSE Zero,
         averageTaskDuration |->
             IF Len(completedTasksWithHours) > 0
             THEN Fraction(SumHours(completedTasksWithHours, "actualHours"),
                           Len(completedTasksWithHours))
             ELSE Zero,
         totalEstimatedHours |-> totalEstimatedHours,
         totalActualHours |-> totalActualHours,
         efficiencyRatio |-> efficiencyRatio(totalEstimatedHours, totalActualHours)]

EstimatedValues == {Undefined, Number(0), Number(30), String("1.5"), String("abc")}
ActualValues == {Undefined, Null, Number(0), Number(20), String("abc")}

\* the tasks calculateProjectAnalytics is called with
AnalyticsTasks ==
    {[status |-> sc[1], completedAt |-> sc[2], estimatedHours |-> e,
      actualHours |-> a] :
        sc \in {<<"in_progress", FALSE>>, <<"done", TRUE>>, <<"done", FALSE>>},
        e \in EstimatedValues, a \in ActualValues}

Analytics ==
    /\ callResult = <<>>
    /\ callResult' = <<calculateProjectAnalytics(callArgs)>>
    /\ UNCHANGED callArgs
    /\ UNCHANGED <<varsV, varsN, varsG, varsD, varsP>>

InitAnalytics ==
    /\ callArgs \in SeqUpTo(AnalyticsTasks, MaxAnalyticsTasks)
    /\ callResult = <<>>
    /\ IdleValidate
    /\ IdleNext
    /\ IdleGen
    /\ IdleDb
    /\ IdleParse

NextAnalytics == Analytics

SpecAnalytics == InitAnalytics /\ [][NextAnalytics]_vars

(***************************************************************************)
(* buildTaskDependencyGraph called on its own                              *)
(*                                                                         *)
(* The task at index i of the array has the id i; the id one above the     *)
(* number of tasks belongs to no task.                                     *)
(***************************************************************************)
NumGraphTasks == 2
MaxGraphDeps == 2
NumLevelTasks == 4

RECURSIVE SetToSeq(_)
\* the ids of a set as a list, in rising order
SetToSeq(S) ==
    IF S = {} THEN <<>>
    ELSE LET m == CHOOSE x \in S : \A y \in S : x <= y
         IN  <<m>> \o SetToSeq(S \ {m})

\* graph[depId] is set
HasNode(graph, depId) == depId \in DOMAIN graph

RECURSIVE DependentsOf(_, _, _, _)
\* the second loop: the ids pushed onto graph[id].dependents, i and j
\* running over the tasks and over the dependencies of a task
DependentsOf(tasks, id, i, j) ==
    IF i > Len(tasks) THEN <<>>
    ELSE IF j > Len(tasks[i].dependencies) THEN DependentsOf(tasks, id, i + 1, 1)
    ELSE (IF tasks[i].dependencies[j] = id THEN <<tasks[i].id>> ELSE <<>>)
         \o DependentsOf(tasks, id, i, j + 1)

\* a second loop that records the edge at the depending task
DependentsForward(tasks, id) ==
    LET i == CHOOSE k \in DOMAIN tasks : tasks[k].id = id
    IN  SelectSeq(tasks[i].dependencies,
                  LAMBDA d : \E k \in DOMAIN tasks : tasks[k].id = d)

Dependents(tasks, id) == DependentsOf(tasks, id, 1, 1)

\* the level of the dependency looked at last
LastOf(maxLevel, next) == next

\* the levels of the branches added up
SumOf(maxLevel, next) == maxLevel + next

\* Math.max
MathMax(maxLevel, next) == IF next > maxLevel THEN next ELSE maxLevel

RECURSIVE calculateLevel(_, _, _), LevelLoop(_, _, _, _, _)
\* calculateLevel(taskId, visited) over the nodes of graph
calculateLevel(graph, taskId, visited) ==
    IF taskId \in visited THEN 0
    ELSE IF ~HasNode(graph, taskId) \/ graph[taskId].dependencies = <<>> THEN 0
    ELSE LevelLoop(graph, graph[taskId].dependencies, 1,
                   visited \cup {taskId}, 0)

\* the loop over node.dependencies, each call on a copy of visited
LevelLoop(graph, dependencies, j, visited, maxLevel) ==
    IF j > Len(dependencies) THEN maxLevel
    ELSE IF HasNode(graph, dependencies[j])
    THEN LevelLoop(graph, dependencies, j + 1, visited,
                   MathMax(maxLevel,
                           calculateLevel(graph, dependencies[j], visited) + 1))
    ELSE LevelLoop(graph, dependencies, j + 1, visited, maxLevel)

buildTaskDependencyGraph(tasks) ==
    LET ids == {tasks[i].id : i \in DOMAIN tasks}
        nodes == [id \in ids |->
                     LET i == CHOOSE k \in DOMAIN tasks :
                                  /\ tasks[k].id = id
                                  /\ \A l \in DOMAIN tasks :
                                         tasks[l].id = id => l <= k
                     IN  [dependencies |-> tasks[i].dependencies,
                          dependents |-> Dependents(tasks, id),
                          level |-> 0]]
    IN  [id \in ids |-> [nodes[id] EXCEPT !.level = calculateLevel(nodes, id, {})]]

\* the dependency lists of task i among n tasks: any ids, an id of no task
\* included, or ids of earlier tasks only
GraphDeps(shape, i, n) ==
    IF shape = "earlier"
    THEN {SetToSeq(S) : S \in SUBSET (1..(i - 1))}
    ELSE {SetToSeq(S) : S \in {T \in SUBSET (1..(n + 1)) :
                                    Cardinality(T) <= MaxGraphDeps}}

\* the arrays of up to n tasks
GraphTasks(shape, n) ==
    UNION {{[i \in 1..k |-> [id |-> i, dependencies |-> d[i]]] :
               d \in {f \in [1..k -> UNION {GraphDeps(shape, i, k) : i \in 1..k}] :
                          \A i \in 1..k : f[i] \in GraphDeps(shape, i, k)}} :
           k \in 0..n}

BuildGraph ==
    /\ callResult = <<>>
    /\ callResult' = <<buildTaskDependencyGraph(callArgs)>>
    /\ UNCHANGED callArgs
    /\ UNCHANGED <<varsV, varsN, varsG, varsD, varsP>>

\* any collection, with cycles and dependencies that resolve to no task
InitGraph ==
    /\ callArgs \in GraphTasks("any", NumGraphTasks)
    /\ callResult = <<>>
    /\ IdleValidate
    /\ IdleNext
    /\ IdleGen
    /\ IdleDb
    /\ IdleParse

\* collections that pass validation
InitLevels ==
    /\ callArgs \in GraphTasks("earlier", NumLevelTasks)
    /\ callResult = <<>>
    /\ IdleValidate
    /\ IdleNext
    /\ IdleGen
    /\ IdleDb
    /\ IdleParse

NextGraph == BuildGraph

SpecGraph == InitGraph /\ [][NextGraph]_vars
SpecLevels == InitLevels /\ [][NextGraph]_vars

(***************************************************************************)
(* Every tool of the server, called by any user on any project or task     *)
(***************************************************************************)
\* the ids a project can have: those of the stored projects and the one the
\* database gives to the next project created
NewProjectIds == {"p3"}
AllProjectIds == ProjectIds \cup NewProjectIds

ProjectNames == {"alpha", "beta"}

\* the row INSERT INTO projects creates
CreatedProject(login, name, prpContent, now) ==
    [user_id |-> login, name |-> name, status |-> "planning",
     prp_content |-> prpContent, context |-> {}, updated_at |-> now]

\* the handler of project-init, called by login
ProjectInitCall(login) ==
    \E name \in ProjectNames, prpContent \in {<<>>, <<<<"implement">>>>} :
        LET existing == {p \in DOMAIN dbProjects :
                            /\ dbProjects[p].user_id = login
                            /\ dbProjects[p].name = name}
        IN  IF existing # {}
            THEN \E first \in existing :
                     ErrorDetails("project-init", "A project of this name exists",
                                  {first})
            ELSE \E id \in AllProjectIds \ DOMAIN dbProjects :
                     /\ dbClock < MaxClock
                     /\ dbProjects' =
                            [p \in DOMAIN dbProjects \cup {id} |->
                                IF p = id
                                THEN CreatedProject(login, name, prpContent,
                                                    dbClock)
                                ELSE dbProjects[p]]
                     /\ dbClock' = dbClock + 1
                     /\ SuccessResponse("project-init",
                                        "Project created successfully", {id})
                     /\ UNCHANGED <<dbTasks, dbNextId>>

ProjectInit ==
    /\ \E login \in Users :
          /\ ProjectInitCall(login)
          /\ dbCall' = Call(login, <<>>, <<>>)
    /\ UNCHANGED <<varsV, varsN, varsG, varsC, varsP>>

\* the rows ORDER BY updated_at DESC LIMIT limit keeps of the selected ones
Limited(selected, limit) ==
    {shown \in SUBSET selected :
        /\ Cardinality(shown) = IF Cardinality(selected) < limit
                                THEN Cardinality(selected) ELSE limit
        /\ \A a \in shown, b \in selected \ shown :
               dbProjects[a].updated_at >= dbProjects[b].updated_at}

\* the handler of project-list, called by login
ProjectListCall(login) ==
    \E status \in {<<>>, <<"planning">>, <<"active">>}, limit \in 1..2 :
        LET selected == {p \in DOMAIN dbProjects :
                            /\ dbProjects[p].user_id = login
                            /\ status # <<>> => dbProjects[p].status = status[1]}
        IN  /\ IF selected = {}
               THEN SuccessResponse("project-list", "No Projects Found", {})
               ELSE \E shown \in Limited(selected, limit) :
                        SuccessResponse("project-list", "Your Projects", shown)
            /\ UNCHANGED <<dbProjects, dbTasks, dbNextId, dbClock>>

ProjectList ==
    /\ \E login \in Users :
          /\ ProjectListCall(login)
          /\ dbCall' = Call(login, <<>>, <<>>)
    /\ UNCHANGED <<varsV, varsN, varsG, varsC, varsP>>

\* the handler of project-get, called by login on projectId
\* row[name] of a row read as any: undefined when the row has no property
\* of that name, null for NULL
Property(row, name) ==
    IF name \notin DOMAIN row THEN Undefined
    ELSE IF row[name] = <<>> THEN Null
    ELSE Number(row[name][1])

\* the rows SELECT * FROM tasks WHERE project_id = projectId returns, read
\* by calculateProjectAnalytics under the names of Task
RowsAsAny(projectId) ==
    LET ids == SetToSeq(ProjectTasks(projectId))
    IN  [i \in DOMAIN ids |->
            [status |-> dbTasks[ids[i]].status,
             completedAt |-> Truthy(Property(dbTasks[ids[i]], "completedAt")),
             estimatedHours |-> Property(dbTasks[ids[i]], "estimatedHours"),
             actualHours |-> Property(dbTasks[ids[i]], "actualHours")]]

\* createDetailResponse of project-get: the summary shows the analytics
DetailResponse(projectId, analytics) ==
    dbResponse' = [tool |-> "project-get", isError |-> FALSE,
                   message |-> "Project Details", data |-> {projectId},
                   analytics |-> analytics]

\* the handler of project-get, called by login on projectId
ProjectGetCall(login, projectId) ==
    IF ~SelectOwnProject(projectId, login)
    THEN ErrorResponse("project-get", "Project not found or access denied")
    ELSE /\ DetailResponse(projectId,
                           calculateProjectAnalytics(RowsAsAny(projectId)))
         /\ UNCHANGED <<dbProjects, dbTasks, dbNextId, dbClock>>

ProjectGet ==
    /\ \E login \in Users, projectId \in AllProjectIds :
          /\ ProjectGetCall(login, projectId)
          /\ dbCall' = Call(login, <<projectId>>, <<>>)
    /\ UNCHANGED <<varsV, varsN, varsG, varsC, varsP>>

\* a filter that is given: the argument is truthy
Given(filter) == filter # <<>> /\ filter[1] # ""

\* the rows of the SELECT that the chain of tests on status, priority and
\* assignee picks; limit and offset at their defaults, which take in every
\* row
FilteredTasks(projectId, status, priority, assignee) ==
    {id \in ProjectTasks(projectId) :
        IF Given(status) /\ Given(priority) /\ Given(assignee)
        THEN /\ dbTasks[id].status = status[1]
             /\ dbTasks[id].priority = priority[1]
             /\ dbTasks[id].assignee = assignee
        ELSE IF Given(status) /\ Given(priority)
        THEN /\ dbTasks[id].status = status[1]
             /\ dbTasks[id].priority = priority[1]
        ELSE IF Given(status) THEN dbTasks[id].status = status[1]
        ELSE IF Given(priority) THEN dbTasks[id].priority = priority[1]
        ELSE IF Given(assignee) THEN dbTasks[id].assignee = assignee
        ELSE TRUE}

\* the filters task-list is called with: each choice of the filters given
TaskFilters ==
    [status : {<<>>, <<"todo">>}, priority : {<<>>, <<"medium">>},
     assignee : {<<>>, <<"coleam00">>}]

\* createListResponse of task-list: tasks are the rows listed
ListResponse(projectId, tasks) ==
    dbResponse' = [tool |-> "task-list", isError |-> FALSE,
                   message |-> "Tasks for the project", data |-> {projectId},
                   tasks |-> tasks]

\* the handler of task-list, called by login on projectId with filter
TaskListCall(login, projectId, filter) ==
    LET tasks == FilteredTasks(projectId, filter.status, filter.priority,
                               filter.assignee)
    IN  IF ~SelectOwnProject(projectId, login)
        THEN ErrorResponse("task-list", "Project not found or access denied")
        ELSE IF tasks = {}
        THEN ErrorResponse("task-list", "No tasks found")
        ELSE /\ ListResponse(projectId, tasks)
             /\ UNCHANGED <<dbProjects, dbTasks, dbNextId, dbClock>>

TaskList ==
    /\ \E login \in Users, projectId \in AllProjectIds, filter \in TaskFilters :
          /\ TaskListCall(login, projectId, filter)
          /\ dbCall' = Call(login, <<projectId>>, <<>>)
    /\ UNCHANGED <<varsV, varsN, varsG, varsC, varsP>>

\* task-list, the filters of the call kept with the call
TaskListFilter ==
    /\ \E login \in Users, projectId \in AllProjectIds, filter \in TaskFilters :
          /\ TaskListCall(login, projectId, filter)
          /\ dbCall' = Call(login, <<projectId>>, <<>>) @@ [filter |-> filter]
    /\ UNCHANGED <<varsV, varsN, varsG, varsC, varsP>>

\* the rows SELECT * FROM tasks WHERE project_id = projectId returns, as
\* the array findNextTask is given
RowArray(projectId) ==
    LET ids == SetToSeq(ProjectTasks(projectId))
    IN  [i \in DOMAIN ids |->
            [id |-> ids[i], status |-> dbTasks[ids[i]].status,
             priority |-> dbTasks[ids[i]].priority,
             dependencies |-> dbTasks[ids[i]].dependencies,
             createdAt |-> dbTasks[ids[i]].created_at]]

\* the handler of task-next, called by login on projectId
TaskNextCall(login, projectId, excludeBlocked) ==
    LET nextTask == findNextTask(RowArray(projectId), excludeBlocked)
    IN  IF ~SelectOwnProject(projectId, login)
        THEN ErrorResponse("task-next", "Project not found or access denied")
        ELSE IF ProjectTasks(projectId) = {}
        THEN ErrorResponse("task-next", "No tasks found")
        ELSE IF nextTask = <<>>
        THEN ErrorDetails("task-next", "No available tasks", {projectId})
        ELSE /\ dbResponse' = [tool |-> "task-next", isError |-> FALSE,
                                message |-> "Next Recommended Task",
                                data |-> {projectId}, task |-> nextTask[1].id]
             /\ UNCHANGED <<dbProjects, dbTasks, dbNextId, dbClock>>

TaskNext ==
    /\ \E login \in Users, projectId \in AllProjectIds,
          excludeBlocked \in BOOLEAN :
          /\ TaskNextCall(login, projectId, excludeBlocked)
          /\ dbCall' = Call(login, <<projectId>>, <<>>)
    /\ UNCHANGED <<varsV, varsN, varsG, varsC, varsP>>

\* the handler of task-get, called by login on taskId
TaskGetCall(login, taskId) ==
    IF taskId \notin DOMAIN dbTasks
    THEN ErrorResponse("task-get", "Task not found")
    ELSE IF ~checkProjectPermission(
                 dbProjects[dbTasks[taskId].project_id].user_id, login)
    THEN ErrorResponse("task-get", "Permission denied")
    ELSE /\ SuccessResponse("task-get", "Task Details",
                            {dbTasks[taskId].project_id})
         /\ UNCHANGED <<dbProjects, dbTasks, dbNextId, dbClock>>

TaskGet ==
    /\ \E login \in Users, taskId \in 1..MaxTaskRows :
          /\ TaskGetCall(login, taskId)
          /\ dbCall' = Call(login, <<>>, <<taskId>>)
    /\ UNCHANGED <<varsV, varsN, varsG, varsC, varsP>>

\* the handler of project-research, called by login on projectId
ProjectResearchCall(login, projectId) ==
    IF ~SelectOwnProject(projectId, login)
    THEN ErrorResponse("project-research", "Project not found or access denied")
    ELSE /\ SuccessResponse("project-research", "Research Results",
                            {projectId})
         /\ UNCHANGED <<dbProjects, dbTasks, dbNextId, dbClock>>

ProjectResearch ==
    /\ \E login \in Users, projectId \in AllProjectIds :
          /\ ProjectResearchCall(login, projectId)
          /\ dbCall' = Call(login, <<projectId>>, <<>>)
    /\ UNCHANGED <<varsV, varsN, varsG, varsC, varsP>>

\* the keys a context object can have
ContextKeys == {"tech_stack"}

\* the handler of project-context, called by login on projectId; a context
\* is the set of its keys
ProjectContextCall(login, projectId) ==
    \E context \in {<<>>} \cup {<<c>> : c \in SUBSET ContextKeys},
       append \in BOOLEAN :
        IF ~SelectOwnProject(projectId, login)
        THEN ErrorResponse("project-context",
                           "Project not found or access denied")
        ELSE IF context # <<>>
        THEN LET currentContext == dbProjects[projectId].context
                 newContext == IF append THEN currentContext \cup context[1]
                               ELSE context[1]
             IN  /\ dbClock < MaxClock
                 /\ dbProjects' = [dbProjects EXCEPT
                                      ![projectId].context = newContext,
                                      ![projectId].updated_at = dbClock]
                 /\ dbClock' = dbClock + 1
                 /\ SuccessResponse("project-context",
                                    "Project context updated", {projectId})
                 /\ UNCHANGED <<dbTasks, dbNextId>>
        ELSE /\ SuccessResponse("project-context", "Project Context",
                                {projectId})
             /\ UNCHANGED <<dbProjects, dbTasks, dbNextId, dbClock>>

ProjectContext ==
    /\ \E login \in Users, projectId \in AllProjectIds :
          /\ ProjectContextCall(login, projectId)
          /\ dbCall' = Call(login, <<projectId>>, <<>>)
    /\ UNCHANGED <<varsV, varsN, varsG, varsC, varsP>>

NextAccess ==
    \/ ProjectInit
    \/ ProjectList
    \/ ProjectGet
    \/ ParsePrp
    \/ ProjectResearch
    \/ ProjectContext
    \/ TaskList
    \/ TaskNext
    \/ TaskGet
    \/ TaskUpdate
    \/ TaskComplete

\* the tables some time into the life of the server: each user has a
\* project, the project of the user without privileges has a task, and two
\* more writes are followed
StoredTask ==
    [project_id |-> "p2", title |-> <<"stored title">>,
     description |-> <<<<"stored description">>>>, status |-> "todo",
     priority |-> "medium", dependencies |-> <<>>, assignee |-> <<>>,
     estimated_hours |-> <<>>, actual_hours |-> <<>>, notes |-> <<>>,
     created_at |-> 0, updated_at |-> 0, completed_at |-> <<>>]

InitAccess ==
    /\ dbProjects = [p \in ProjectIds |->
                        [user_id |-> ProjectOwner(p), name |-> "alpha",
                         status |-> "planning", prp_content |-> <<>>,
                         context |-> {}, updated_at |-> 0]]
    /\ dbTasks = ((MaxTaskRows - 1) :> StoredTask)
    /\ dbNextId = MaxTaskRows
    /\ dbClock = MaxClock - 2
    /\ dbResponse = NoResponse
    /\ dbCall = NoCall
    /\ IdleValidate
    /\ IdleNext
    /\ IdleGen
    /\ IdleCall
    /\ IdleParse

SpecAccess == InitAccess /\ [][NextAccess]_vars

(***************************************************************************)
(* The task tools on stored tasks                                          *)
(***************************************************************************)
\* the tables some time into the life of the server: the project of the
\* privileged user has a task, todo or completed, the project of the other
\* user has a task that is todo, and two more writes are followed
InitTasks ==
    /\ dbProjects = [p \in ProjectIds |->
                        [user_id |-> ProjectOwner(p), name |-> "alpha",
                         status |-> "planning", prp_content |-> <<>>,
                         context |-> {}, updated_at |-> 0]]
    /\ dbTasks \in {(1 :> [StoredTask EXCEPT !.project_id = "p1"])
                       @@ (2 :> StoredTask),
                    (1 :> [StoredTask EXCEPT !.project_id = "p1",
                                             !.status = "done",
                                             !.completed_at = <<0>>])
                       @@ (2 :> StoredTask)}
    /\ dbNextId = 3
    /\ dbClock = MaxClock - 2
    /\ dbResponse = NoResponse
    /\ dbCall = NoCall
    /\ IdleValidate
    /\ IdleNext
    /\ IdleGen
    /\ IdleCall
    /\ IdleParse

\* registerTaskTools
NextTasks ==
    \/ TaskList
    \/ TaskNext
    \/ TaskGet
    \/ TaskUpdate
    \/ TaskComplete

SpecTasks == InitTasks /\ [][NextTasks]_vars

\* task-list among the tools that change the rows it lists
NextFilter ==
    \/ TaskListFilter
    \/ TaskUpdate
    \/ TaskComplete

SpecFilter == InitTasks /\ [][NextFilter]_vars

(***************************************************************************)
(* Working through a project: task-next, then task-complete on its answer  *)
(***************************************************************************)
NumProgressTasks == 3

ProgressIds == 1..NumProgressTasks

RECURSIVE Reaches(_, _, _)
\* the ids reached from the ids of S along deps, in at most n steps
Reaches(deps, S, n) ==
    IF n = 0 THEN S
    ELSE Reaches(deps, S \cup UNION {deps[id] : id \in S}, n - 1)

\* the dependency relations over the tasks of the project in which no task
\* depends on itself through any chain
AcyclicDeps ==
    {deps \in [ProgressIds -> SUBSET ProgressIds] :
        \A id \in ProgressIds :
            id \notin Reaches(deps, deps[id], NumProgressTasks)}

\* the statuses of the rows: no task is in_progress, the first may be
\* blocked
ProgressStatuses ==
    {status \in [ProgressIds -> {"todo", "blocked", "done"}] :
        \A id \in ProgressIds : status[id] = "blocked" => id = 1}

\* the rows of the project
ProgressTasks ==
    {[id \in ProgressIds |->
         [StoredTask EXCEPT
             !.project_id = "p1",
             !.status = status[id],
             !.priority = IF id = 1 THEN "low" ELSE "medium",
             !.dependencies = SetToSeq(deps[id]),
             !.completed_at = IF status[id] = "done" THEN <<0>> ELSE <<>>]] :
        deps \in AcyclicDeps,
        status \in ProgressStatuses}

InitProgress ==
    /\ dbProjects = [p \in ProjectIds |->
                        [user_id |-> ProjectOwner(p), name |-> "alpha",
                         status |-> "planning", prp_content |-> <<>>,
                         context |-> {}, updated_at |-> 0]]
    /\ dbTasks \in ProgressTasks
    /\ dbNextId = NumProgressTasks + 1
    /\ dbClock = MaxClock - NumProgressTasks
    /\ dbResponse = NoResponse
    /\ dbCall = NoCall
    /\ IdleValidate
    /\ IdleNext
    /\ IdleGen
    /\ IdleCall
    /\ IdleParse

\* the owner of the project asks for the next task, blocked tasks included
AskNext ==
    /\ TaskNextCall(ProjectOwner("p1"), "p1", FALSE)
    /\ dbCall' = Call(ProjectOwner("p1"), <<"p1">>, <<>>)
    /\ UNCHANGED <<varsV, varsN, varsG, varsC, varsP>>

\* and completes the task that was recommended, giving no hours and no
\* notes
CompleteNext ==
    /\ dbResponse.tool = "task-next"
    /\ ~dbResponse.isError
    /\ TaskCompleteCall(ProjectOwner("p1"), dbResponse.task, <<>>, <<>>)
    /\ dbCall' = Call(ProjectOwner("p1"), <<>>, <<dbResponse.task>>)
    /\ UNCHANGED <<varsV, varsN, varsG, varsC, varsP>>

NextProgress ==
    \/ AskNext
    \/ CompleteNext

SpecProgress == InitProgress /\ [][NextProgress]_vars

\* the owner completes each task that was recommended
LiveProgress ==
    /\ SpecProgress
    /\ WF_vars(CompleteNext)

(***************************************************************************)
(* parse-prp statement by statement: several calls run at once, and the    *)
(* handler of each is suspended at every await                             *)
(***************************************************************************)
NumCalls == 2

\* the arguments parse-prp is called with, and the session it is called in
ParseArgs ==
    [login : Users, projectId : ProjectIds,
     prpContent : {<<"implement", " ", Filler>>, <<"x">>},
     maxTasks : 1..MaxMaxTasks, overwriteExisting : BOOLEAN]

\* a call that has not run yet
NewCall(args) ==
    [pc |-> "select", args |-> args, aiTasks |-> <<>>, inserted |-> {}]

\* the call returns: its response is the last one
Return(c, isError, message, data) ==
    /\ pCalls' = [pCalls EXCEPT ![c].pc = "returned"]
    /\ dbResponse' = [tool |-> "parse-prp", isError |-> isError,
                      message |-> message, data |-> data]
    /\ dbCall' = Call(pCalls[c].args.login, <<pCalls[c].args.projectId>>, <<>>)

\* the handler up to the end of SELECT * FROM projects
SelectProject(c) ==
    LET args == pCalls[c].args
    IN  /\ pCalls[c].pc = "select"
        /\ IF ~validatePRPContent(args.prpContent).isValid
           THEN Return(c, TRUE, "Invalid PRP content", {})
           ELSE IF ~SelectOwnProject(args.projectId, args.login)
           THEN Return(c, TRUE, "Project not found or access denied", {})
           ELSE /\ pCalls' = [pCalls EXCEPT
                                 ![c].pc = IF args.overwriteExisting
                                           THEN "delete" ELSE "count"]
                /\ UNCHANGED <<dbResponse, dbCall>>
        /\ UNCHANGED <<dbProjects, dbTasks, dbNextId, dbClock>>

\* SELECT COUNT(*) FROM tasks and the test of the count
CountExisting(c) ==
    LET args == pCalls[c].args
    IN  /\ pCalls[c].pc = "count"
        /\ IF ProjectTasks(args.projectId) # {}
           THEN Return(c, TRUE, "Project already has tasks", {args.projectId})
           ELSE /\ pCalls' = [pCalls EXCEPT ![c].pc = "generate"]
                /\ UNCHANGED <<dbResponse, dbCall>>
        /\ UNCHANGED <<dbProjects, dbTasks, dbNextId, dbClock>>

\* a handler that goes on to generate with the rows left in place
KeepExisting(c) ==
    /\ pCalls[c].pc = "delete"
    /\ pCalls' = [pCalls EXCEPT ![c].pc = "generate"]
    /\ UNCHANGED <<dbProjects, dbTasks, dbNextId, dbClock, dbResponse, dbCall>>

\* DELETE FROM tasks WHERE project_id = projectId
DeleteExisting(c) ==
    LET args == pCalls[c].args
    IN  /\ pCalls[c].pc = "delete"
        /\ dbTasks' = [id \in DOMAIN dbTasks \ ProjectTasks(args.projectId) |->
                          dbTasks[id]]
        /\ pCalls' = [pCalls EXCEPT ![c].pc = "generate"]
        /\ UNCHANGED <<dbProjects, dbNextId, dbClock, dbResponse, dbCall>>

\* await parser.generateTasksFromPRP(...)
GenerateTasks(c) ==
    LET args == pCalls[c].args
        sanitizedContent == sanitizePRPContent(args.prpContent)
        config == ToolConfig(args.maxTasks)
    IN  /\ pCalls[c].pc = "generate"
        /\ \E answer \in ToolAnswers,
              rnd \in [1..RandomDraws(sanitizedContent, config)
                         -> ToolRandomHours] :
               pCalls' = [pCalls EXCEPT
                             ![c].pc = "insert",
                             ![c].aiTasks = generateTasksFromPRP(
                                 sanitizedContent, config, answer, rnd)]
        /\ UNCHANGED <<dbProjects, dbTasks, dbNextId, dbClock, dbResponse,
                       dbCall>>

\* one INSERT INTO tasks of the loop over aiTasks
InsertTask(c) ==
    LET args == pCalls[c].args
        k == Cardinality(pCalls[c].inserted) + 1
    IN  /\ pCalls[c].pc = "insert"
        /\ k <= Len(pCalls[c].aiTasks)
        /\ dbNextId <= MaxTaskRows
        /\ dbTasks' = [id \in DOMAIN dbTasks \cup {dbNextId} |->
                          IF id = dbNextId
                          THEN InsertedRow(args.projectId, pCalls[c].aiTasks[k],
                                           dbClock)
                          ELSE dbTasks[id]]
        /\ dbNextId' = dbNextId + 1
        /\ pCalls' = [pCalls EXCEPT ![c].inserted = @ \cup {dbNextId}]
        /\ UNCHANGED <<dbProjects, dbClock, dbResponse, dbCall>>

\* UPDATE projects SET prp_content, and the success response
UpdateProject(c) ==
    LET args == pCalls[c].args
    IN  /\ pCalls[c].pc = "insert"
        /\ Cardinality(pCalls[c].inserted) = Len(pCalls[c].aiTasks)
        /\ dbProjects' = [dbProjects EXCEPT
                             ![args.projectId].prp_content =
                                 <<sanitizePRPContent(args.prpContent)>>,
                             ![args.projectId].updated_at = dbClock]
        /\ Return(c, FALSE, "PRP parsed successfully", {args.projectId})
        /\ UNCHANGED <<dbTasks, dbNextId, dbClock>>

\* NOW() moves on
Tick ==
    /\ dbClock < MaxClock
    /\ dbClock' = dbClock + 1
    /\ UNCHANGED <<dbProjects, dbTasks, dbNextId, dbResponse, dbCall, pCalls>>

\* a statement of an operation runs on the connection the operation was
\* handed: no lock is held and no transaction is open, so statements of
\* other calls run before and after it
withDatabase(statement) ==
    /\ statement
    /\ UNCHANGED <<varsV, varsN, varsG, varsC>>

ParseSelect == \E c \in DOMAIN pCalls : withDatabase(SelectProject(c))

ParseCount == \E c \in DOMAIN pCalls : withDatabase(CountExisting(c))

ParseDelete == \E c \in DOMAIN pCalls : withDatabase(DeleteExisting(c))

ParseGenerate == \E c \in DOMAIN pCalls : withDatabase(GenerateTasks(c))

ParseInsert == \E c \in DOMAIN pCalls : withDatabase(InsertTask(c))

ParseUpdate == \E c \in DOMAIN pCalls : withDatabase(UpdateProject(c))

Clock ==
    /\ Tick
    /\ UNCHANGED <<varsV, varsN, varsG, varsC>>

InitRace ==
    /\ dbProjects = [p \in ProjectIds |->
                        [user_id |-> ProjectOwner(p), name |-> "alpha",
                         status |-> "planning", prp_content |-> <<>>,
                         context |-> {}, updated_at |-> 0]]
    /\ dbTasks = <<>>
    /\ dbNextId = 1
    /\ dbClock = 1
    /\ dbResponse = NoResponse
    /\ dbCall = NoCall
    /\ pCalls \in [1..NumCalls -> {NewCall(args) : args \in ParseArgs}]
    /\ IdleValidate
    /\ IdleNext
    /\ IdleGen
    /\ IdleCall

NextRace ==
    \/ ParseSelect
    \/ ParseCount
    \/ ParseDelete
    \/ ParseGenerate
    \/ ParseInsert
    \/ ParseUpdate
    \/ Clock

SpecRace == InitRace /\ [][NextRace]_vars

(***************************************************************************)
(* One parse-prp call on tables that hold tasks                            *)
(***************************************************************************)
\* the rows stored before the call: a task of project p1, todo or done, and
\* a task of project p2, under ids the call does not hand out
TasksBefore ==
    {((MaxTaskRows + 1) :> [StoredTask EXCEPT !.project_id = "p1"])
        @@ ((MaxTaskRows + 2) :> StoredTask),
     ((MaxTaskRows + 1) :> [StoredTask EXCEPT !.project_id = "p1",
                                              !.status = "done",
                                              !.completed_at = <<0>>])
        @@ ((MaxTaskRows + 2) :> StoredTask)}

InitOverwrite ==
    /\ dbProjects = [p \in ProjectIds |->
                        [user_id |-> ProjectOwner(p), name |-> "alpha",
                         status |-> "planning", prp_content |-> <<>>,
                         context |-> {}, updated_at |-> 0]]
    /\ dbTasks \in TasksBefore
    /\ dbNextId = 1
    /\ dbClock = 1
    /\ dbResponse = NoResponse
    /\ dbCall = NoCall
    /\ pCalls \in [{1} -> {NewCall(args) : args \in ParseArgs}]
    /\ IdleValidate
    /\ IdleNext
    /\ IdleGen
    /\ IdleCall

NextOverwrite ==
    \/ ParseSelect
    \/ ParseCount
    \/ ParseDelete
    \/ ParseGenerate
    \/ ParseInsert
    \/ ParseUpdate
    \/ Clock

SpecOverwrite == InitOverwrite /\ [][NextOverwrite]_vars

(***************************************************************************)
(* project-init statement by statement: several calls run at once          *)
(***************************************************************************)
\* the arguments project-init is called with, and the session it is called in
InitArgs == [login : Users, name : ProjectNames]

\* the call returns: its response is the last one
ReturnInit(c, isError, message, data) ==
    /\ pCalls' = [pCalls EXCEPT ![c].pc = "returned"]
    /\ dbResponse' = [tool |-> "project-init", isError |-> isError,
                      message |-> message, data |-> data]
    /\ dbCall' = Call(pCalls[c].args.login, <<>>, <<>>)

\* the rows of projects with this user_id and name
SameName(login, name) ==
    {p \in DOMAIN dbProjects :
        dbProjects[p].user_id = login /\ dbProjects[p].name = name}

\* SELECT id FROM projects WHERE user_id AND name, and the test of the rows
CheckDuplicate(c) ==
    LET args == pCalls[c].args
    IN  /\ pCalls[c].pc = "check"
        /\ IF SameName(args.login, args.name) # {}
           THEN \E first \in SameName(args.login, args.name) :
                    ReturnInit(c, TRUE, "A project of this name exists", {first})
           ELSE /\ pCalls' = [pCalls EXCEPT ![c].pc = "insert"]
                /\ UNCHANGED <<dbResponse, dbCall>>
        /\ UNCHANGED <<dbProjects, dbTasks, dbNextId, dbClock>>

\* no constraint on the rows of projects
NoConstraint(login, name) == TRUE

\* CONSTRAINT unique_project_per_user UNIQUE (user_id, name) admits the row
unique_project_per_user(login, name) == SameName(login, name) = {}

\* INSERT INTO projects: the row is stored, or the constraint raises an
\* exception, which the handler catches
InsertProject(c) ==
    LET args == pCalls[c].args
    IN  /\ pCalls[c].pc = "insert"
        /\ IF ~unique_project_per_user(args.login, args.name)
           THEN /\ ReturnInit(c, TRUE, "Failed to create project", {})
                /\ UNCHANGED dbProjects
           ELSE \E id \in AllProjectIds \ DOMAIN dbProjects :
                    /\ dbProjects' =
                           [p \in DOMAIN dbProjects \cup {id} |->
                               IF p = id
                               THEN CreatedProject(args.login, args.name, <<>>,
                                                   dbClock)
                               ELSE dbProjects[p]]
                    /\ ReturnInit(c, FALSE, "Project created successfully",
                                  {id})
        /\ UNCHANGED <<dbTasks, dbNextId, dbClock>>

InitCheck == \E c \in DOMAIN pCalls : withDatabase(CheckDuplicate(c))

InitInsert == \E c \in DOMAIN pCalls : withDatabase(InsertProject(c))

InitCreate ==
    /\ dbProjects = <<>>
    /\ dbTasks = <<>>
    /\ dbNextId = 1
    /\ dbClock = 1
    /\ dbResponse = NoResponse
    /\ dbCall = NoCall
    /\ pCalls \in [1..NumCalls -> {[pc |-> "check", args |-> args] :
                                      args \in InitArgs}]
    /\ IdleValidate
    /\ IdleNext
    /\ IdleGen
    /\ IdleCall

NextCreate ==
    \/ InitCheck
    \/ InitInsert
    \/ Clock

SpecCreate == InitCreate /\ [][NextCreate]_vars

(***************************************************************************)
(* formatDuration called on its own                                        *)
(*                                                                         *)
(* Hours are counted in tenths of an hour.  A text is the record of its    *)
(* kind and its numbers: 'No time', '<n> minutes', '<n/10> hours' with one *)
(* decimal, and '<days> day(s)' followed, if n > 0, by ' <n/10> hours'.    *)
(***************************************************************************)
MaxDurationTenths == 250

HoursPerDay == 24

Text(kind, days, n) == [kind |-> kind, days |-> days, n |-> n]

\* formatDuration
formatDuration(hours) ==
    LET numHours == IF hours.type = "string" THEN parseFloat(hours.text)
                    ELSE IF Truthy(hours) THEN <<hours.n>> ELSE <<0>>
    IN  IF numHours = <<>> \/ numHours[1] <= 0 THEN Text("No time", 0, 0)
        ELSE IF numHours[1] < 10 THEN Text("minutes", 0, numHours[1] * 6)
        ELSE IF numHours[1] < HoursPerDay * 10
        THEN Text("hours", 0, numHours[1])
        ELSE Text("days", numHours[1] \div (HoursPerDay * 10),
                  numHours[1] % (HoursPerDay * 10))

\* the durations formatDuration is called with
Durations ==
    {Number(n) : n \in (0 - 1)..MaxDurationTenths}
    \cup {Undefined, Null, String("1.5"), String("")}

FormatDuration ==
    /\ callResult = <<>>
    /\ callResult' = <<formatDuration(callArgs)>>
    /\ UNCHANGED callArgs
    /\ UNCHANGED <<varsV, varsN, varsG, varsD, varsP>>

InitDuration ==
    /\ callArgs \in Durations
    /\ callResult = <<>>
    /\ IdleValidate
    /\ IdleNext
    /\ IdleGen
    /\ IdleDb
    /\ IdleParse

NextDuration == FormatDuration

SpecDuration == InitDuration /\ [][NextDuration]_vars

(***************************************************************************)
(* The dependency graph the validator is specified against: the proposed   *)
(* dependencies are the edges of taskId, the stored dependencies the edges *)
(* of every other task.                                                    *)
(***************************************************************************)
Succ(x) ==
    IF x = vTaskId THEN Range(vDeps)
    ELSE IF x \in DOMAIN vAllTasks THEN Range(vAllTasks[x].dependencies)
    ELSE {}

RECURSIVE Closure(_)
Closure(S) ==
    LET n == S \cup UNION {Succ(x) : x \in S}
    IN  IF n = S THEN S ELSE Closure(n)

\* the nodes reached from x by one edge or more
ReachPlus(x) == Closure(Succ(x))

OnCycle(x) == x \in ReachPlus(x)

CycleReachable == \E n \in {vTaskId} \cup ReachPlus(vTaskId) : OnCycle(n)

Reported(e) == e \in Range(vResult.errors)

Count(e) == Cardinality({i \in DOMAIN vResult.errors : vResult.errors[i] = e})

\* C1: with non-empty proposed dependencies the result carries 'Circular
\* dependency detected' exactly when the graph (proposed edges for taskId,
\* stored edges for the others) has a cycle reachable from taskId; with
\* empty proposed dependencies the error is absent.
C1_CycleIff ==
    vResult.called =>
        (Reported(ErrCycle) <=> (Len(vDeps) > 0 /\ CycleReachable))

\* a cycle that does not pass through taskId is reported
C1_Witness ==
    /\ vResult.called
    /\ Reported(ErrCycle)
    /\ ~OnCycle(vTaskId)

NotFoundApplies(d) == d \in Range(vDeps) /\ d \notin DOMAIN vAllTasks

OtherProjectApplies(d) ==
    /\ d \in Range(vDeps)
    /\ d \in DOMAIN vAllTasks
    /\ vTaskId \in DOMAIN vAllTasks
    /\ vAllTasks[d].projectId # vAllTasks[vTaskId].projectId

\* C2: every applicable violation is in the one result: a proposed
\* dependency on the task itself reports the self-dependency error together
\* with the cycle, not-found and other-project errors that apply; the cycle
\* error appears at most once; isValid holds exactly when errors is empty;
\* an empty dependency list is valid with no errors.
C2_AllCollected ==
    vResult.called =>
        /\ (vResult.isValid <=> Len(vResult.errors) = 0)
        /\ Count(ErrCycle) <= 1
        /\ (Len(vDeps) = 0 => vResult.isValid /\ vResult.errors = <<>>)
        /\ (vTaskId \in Range(vDeps) =>
               /\ Reported(ErrSelf)
               /\ (CycleReachable => Reported(ErrCycle))
               /\ \A d \in TaskIds :
                      /\ (NotFoundApplies(d) => Reported(ErrNotFound(d)))
                      /\ (OtherProjectApplies(d) => Reported(ErrOtherProject(d))))

\* C3: for non-empty proposed dependencies, every proposed dependency that
\* is no task of the collection is reported as not found and every one in
\* another project as not in the same project, whether or not taskId is in
\* the collection.
C3_ExistenceReported ==
    (vResult.called /\ Len(vDeps) > 0) =>
        \A d \in TaskIds :
            /\ (NotFoundApplies(d) => Reported(ErrNotFound(d)))
            /\ (OtherProjectApplies(d) => Reported(ErrOtherProject(d)))

(***************************************************************************)
(* Eligibility for next-task selection as the specification words it       *)
(***************************************************************************)
TaskWithId(id) == {i \in DOMAIN nTasks : nTasks[i].id = id}

Eligible(i) ==
    /\ nTasks[i].status # "done"
    /\ nTasks[i].status # "in_progress"
    /\ (nExcludeBlocked => nTasks[i].status # "blocked")
    /\ \A d \in Range(nTasks[i].dependencies) :
           \E k \in TaskWithId(d) : nTasks[k].status = "done"

EligibleSet == {i \in DOMAIN nTasks : Eligible(i)}

Returned == {i \in DOMAIN nTasks : nResult.ret = <<nTasks[i]>>}

\* C4: the tasks the filter keeps are exactly the eligible ones (not done,
\* not in progress, not blocked when blocked tasks are excluded, every
\* dependency resolving to a done task), and a returned task is one of them.
C4_OnlyEligible ==
    nResult.called =>
        /\ \A i \in DOMAIN nTasks :
               IsAvailable(nTasks, nTasks[i], nExcludeBlocked) <=> Eligible(i)
        /\ (nResult.ret # <<>> =>
               /\ Returned # {}
               /\ Returned \subseteq EligibleSet)

\* a blocked task whose dependency is done is returned when blocked tasks
\* are not excluded
C4_Witness ==
    /\ nResult.called
    /\ nResult.ret # <<>>
    /\ nResult.ret[1].status = "blocked"
    /\ Len(nResult.ret[1].dependencies) > 0

\* critical < high < medium < low
RankBefore(p, q) ==
    <<p, q>> \in {<<"critical", "high">>, <<"critical", "medium">>,
                  <<"critical", "low">>, <<"high", "medium">>,
                  <<"high", "low">>, <<"medium", "low">>}

Better(i, j) ==
    \/ RankBefore(nTasks[i].priority, nTasks[j].priority)
    \/ /\ nTasks[i].priority = nTasks[j].priority
       /\ nTasks[i].createdAt < nTasks[j].createdAt

\* C5: the result is null exactly when no task is eligible; otherwise it is
\* an eligible task that no eligible task beats on priority rank or, at the
\* same rank, on creation time.
C5_BestEligible ==
    nResult.called =>
        /\ (nResult.ret = <<>> <=> EligibleSet = {})
        /\ (nResult.ret # <<>> =>
               \E r \in EligibleSet :
                   /\ nResult.ret = <<nTasks[r]>>
                   /\ \A j \in EligibleSet : ~Better(j, r))

\* of two eligible tasks of one priority the older one wins although it
\* comes later in the array
C5_Witness ==
    /\ nResult.called
    /\ \E i, j \in EligibleSet :
           /\ i < j
           /\ nTasks[i].priority = nTasks[j].priority
           /\ nTasks[j].createdAt < nTasks[i].createdAt
           /\ nResult.ret = <<nTasks[j]>>

(***************************************************************************)
(* The outcomes of the completion service, as the claims name them         *)
(***************************************************************************)
NetworkFailure == gService.fetch = "rejected"
NonSuccess == gService.fetch = "resolved" /\ ~gService.ok
BodyUnreadable == gService.body = "unreadable"
NoContentField == gService.body = "nocontent"
NotJSON ==
    gService.body = "message" /\ gService.text.kind \in {"invalid", "prose", "wrapped"}
NotAnArray ==
    /\ gService.body = "message"
    /\ gService.text.kind \in {"object", "number", "string", "null"}
AnsweredArray == gService.body = "message" /\ gService.text.kind = "array"

\* the elements of the answered array that survive slice(0, maxTasks)
KeptIndexes ==
    {i \in DOMAIN gService.text.elems : i <= gConfig.maxTasks}

\* an element that is no task object of the requested format
Malformed(e) ==
    \/ e.kind # "object"
    \/ e.title # "string"
    \/ e.description # "string"
    \/ e.priority \notin Priorities

\* an element normalization cannot read a title from: null, or an object
\* whose title is present and no string
Unreadable(e) ==
    \/ e.kind = "null"
    \/ e.kind = "object" /\ e.title \notin {"absent", "string"}

ArrayWithMalformed ==
    AnsweredArray /\ \E i \in DOMAIN gService.text.elems :
                         Malformed(gService.text.elems[i])

RequestUnusable ==
    \/ NetworkFailure \/ NonSuccess \/ BodyUnreadable \/ NoContentField
    \/ NotJSON \/ NotAnArray
    \/ AnsweredArray /\ \E i \in KeptIndexes : Unreadable(gService.text.elems[i])

C8_Inv ==
    /\ gRequests <= 1
    /\ (gPc = "start" <=> gRequests = 0)
    /\ (gPc = "done" <=> gPath \in {"ai", "fallback"})
    /\ gPc \in {"start", "fetching", "reading", "done"}
    /\ (gPath = "fallback" => gRequests = 1 /\ RequestUnusable)
    /\ (gPath = "ai" => gRequests = 1 /\ ~RequestUnusable)

C8_Step ==
    /\ (gPath' # gPath => gRequests' = gRequests)
    /\ (gPc = "fetching" /\ gPc' # gPc => gPc' \in {"reading", "done"})
    /\ (gPc = "reading" /\ gPc' # gPc => gPc' = "done")
    /\ (gPc = "done" => gPc' = "done" /\ gResult' = gResult)

\* C8: a call sends exactly one request and never a second one; the
\* fallback is entered only after that request failed or its answer could
\* not be parsed or normalized, and sends nothing; the step that completes
\* the request ends the call with the normalized list or the fallback list.
C8_OneRequest == [](C8_Inv) /\ [][C8_Step]_vars

\* the one request was answered with an array that could not be normalized
\* and the call ended in the fallback
C8_Witness ==
    /\ gPc = "done"
    /\ gPath = "fallback"
    /\ gRequests = 1
    /\ AnsweredArray

\* C9: the returned list has at most config.maxTasks elements, on the AI
\* path and on the fallback path, for every maxTasks >= 0.
C9_AtMostMaxTasks ==
    gPc = "done" => Len(gResult) <= gConfig.maxTasks

\* a number of hours brought into [0.5, 40]
ClampedInto(h) == IF h < 5 THEN 5 ELSE IF h > 400 THEN 400 ELSE h

\* C10: on the AI path with estimateHours, every element with a numeric
\* estimatedHours yields a task whose estimatedHours is that number clamped
\* into [0.5, 40] (0 and negatives become 0.5); without estimateHours no
\* returned task carries estimatedHours.
C10_HoursClamped ==
    (gPc = "done" /\ gPath = "ai") =>
        \A i \in DOMAIN gResult :
            LET e == gService.text.elems[i]
            IN  IF gConfig.estimateHours
                THEN (e.kind = "object" /\ e.hoursType = "number")
                         => gResult[i].estimatedHours = <<ClampedInto(e.hours)>>
                ELSE gResult[i].estimatedHours = <<>>

\* C6: after any sequence of parse-prp, task-update and task-complete calls,
\* every stored task has completed_at set if and only if its status is done.
C6_CompletedIffDone ==
    \A id \in DOMAIN dbTasks :
        (dbTasks[id].completed_at # <<>>) <=> (dbTasks[id].status = "done")

\* the service answered a well-formed array with prose around it
AnsweredWrappedArray ==
    /\ gService.fetch = "resolved"
    /\ gService.ok
    /\ gService.body = "message"
    /\ gService.text.kind = "wrapped"

\* C11: when the service answers with a well-formed JSON array surrounded by
\* prose, the array is extracted and the normalized AI tasks are returned,
\* not the fallback list.
C11_WrappedArrayExtracted ==
    (gPc = "done" /\ AnsweredWrappedArray) =>
        /\ gPath = "ai"
        /\ gResult = validateAndNormalizeTasks(
                         [kind |-> "array", elems |-> gService.text.elems],
                         gConfig).tasks

\* C12: two runs of the fallback on the same content and the same config
\* return identical task lists, field by field.
C12_FallbackDeterministic ==
    Len(callResult) = FallbackRuns => callResult[1] = callResult[2]

\* the request to the completion service failed
ServiceFails == NetworkFailure \/ NonSuccess

\* the content holds one of the nine fallback keywords, compared as
\* validatePRPContent compares them
HoldsFallbackKeyword(content) ==
    \E i \in DOMAIN content : ToLowerCase(content[i]) \in FallbackKeywords

\* C13: when the completion service fails and config.maxTasks >= 1,
\* generateTasksFromPRP returns a non-empty array for every content that
\* holds a fallback keyword, in particular for every content that
\* validatePRPContent accepted because of one of these keywords.
C13_FallbackNonEmpty ==
    (gPc = "done" /\ ServiceFails /\ gConfig.maxTasks >= 1
        /\ HoldsFallbackKeyword(gContent))
        => gResult # <<>>

\* C14: sanitizePRPContent(sanitizePRPContent(x)) = sanitizePRPContent(x) for
\* every string x, also when removing '<' or '>' exposes leading or trailing
\* whitespace or quote characters.
C14_SanitizeIdempotent ==
    Len(callResult) = SanitizeRuns => callResult[2] = callResult[1]

\* removing the leading '<' exposed a blank and a quote was normalised
C14_Witness ==
    /\ Len(callResult) = SanitizeRuns
    /\ Len(callArgs) = 3
    /\ callArgs[1] = "<"
    /\ callArgs[2] = " "
    /\ callArgs[3] = "'"
    /\ callResult[1] = <<"\"">>

EmptyFlag == "PRP content cannot be empty"
ShortFlag == "PRP content is too short to be meaningful"
LongFlag == "PRP content exceeds maximum length of 50,000 characters"
KeywordFlag == "PRP content should contain implementation instructions, code patterns, or technical specifications"

\* the flag is in the errors of the returned result
Flagged(flag) == flag \in Range(callResult[1].errors)

\* the spellings of the ten keywords among the units, in any case
KeywordSpellings == ValidateKeywords \cup {"Implement", "Validate"}

\* C15: validatePRPContent accumulates every applicable flag: empty or
\* whitespace-only text flags empty, length < 50 too short, length > 50000
\* too long (50 and 50000 flag neither), no keyword in any case flags the
\* missing context; isValid holds exactly when no flag fired, and the empty
\* string yields the empty, too-short and missing-keyword flags together.
C15_FlagsAccumulate ==
    callResult # <<>> =>
        LET r == callResult[1]
        IN  /\ Flagged(EmptyFlag) <=>
                   \A i \in DOMAIN callArgs : callArgs[i] \in {" ", "\n"}
            /\ Flagged(ShortFlag) <=> Length(callArgs) < 50
            /\ Flagged(LongFlag) <=> Length(callArgs) > 50000
            /\ Flagged(KeywordFlag) <=>
                   \A i \in DOMAIN callArgs : callArgs[i] \notin KeywordSpellings
            /\ Range(r.errors) \subseteq {EmptyFlag, ShortFlag, LongFlag, KeywordFlag}
            /\ Len(r.errors) = Cardinality(Range(r.errors))
            /\ r.isValid <=> r.errors = <<>>
            /\ callArgs = <<>> =>
                   r.errors = <<EmptyFlag, ShortFlag, KeywordFlag>>
            /\ Length(callArgs) \in {50, 50000} =>
                   ~Flagged(ShortFlag) /\ ~Flagged(LongFlag)

\* a content of exactly 50 characters whose only keyword is capitalised was
\* found valid
C15_Witness ==
    /\ callResult # <<>>
    /\ Length(callArgs) = 50
    /\ \E i \in DOMAIN callArgs : callArgs[i] = "Validate"
    /\ \A i \in DOMAIN callArgs : callArgs[i] \notin ValidateKeywords
    /\ callResult[1].isValid

\* what a value of hours adds to a total: its number, the number a numeric
\* string spells, and 0 when it is missing, null or not numeric
Contributes(value) ==
    IF value.type = "number" THEN value.n
    ELSE IF value = String("1.5") THEN 15
    ELSE 0

RECURSIVE Total(_, _)
Total(field, k) ==
    IF k = 0 THEN 0 ELSE Total(field, k - 1) + Contributes(callArgs[k][field])

DoneCount == Cardinality({k \in DOMAIN callArgs : callArgs[k].status = "done"})

\* the fraction q is a / b
IsQuotient(q, a, b) == q.den # 0 /\ q.num * b = a * q.den

\* C16: efficiencyRatio is totalEstimatedHours / totalActualHours * 100 when
\* both totals are strictly positive and 0 otherwise, completionRate is
\* completedTasks / totalTasks * 100 or 0 without tasks, every field is 0
\* for the empty collection, and missing, null or non-numeric hour values
\* add 0 to the totals.
C16_Analytics ==
    callResult # <<>> =>
        LET a == callResult[1]
            est == Total("estimatedHours", Len(callArgs))
            act == Total("actualHours", Len(callArgs))
        IN  /\ a.totalEstimatedHours = est
            /\ a.totalActualHours = act
            /\ IF est > 0 /\ act > 0
               THEN IsQuotient(a.efficiencyRatio, est * 100, act)
               ELSE a.efficiencyRatio.num = 0
            /\ a.totalTasks = Len(callArgs)
            /\ a.completedTasks = DoneCount
            /\ IF callArgs # <<>>
               THEN IsQuotient(a.completionRate, DoneCount * 100, Len(callArgs))
               ELSE a.completionRate.num = 0
            /\ callArgs = <<>> =>
                   /\ a.totalTasks = 0 /\ a.completedTasks = 0
                   /\ a.inProgressTasks = 0 /\ a.blockedTasks = 0
                   /\ a.completionRate.num = 0 /\ a.averageTaskDuration.num = 0
                   /\ a.totalEstimatedHours = 0 /\ a.totalActualHours = 0
                   /\ a.efficiencyRatio.num = 0

\* both totals are positive, a non-numeric string among the values added 0,
\* and the ratio is above 100
C16_Witness ==
    /\ callResult # <<>>
    /\ Len(callArgs) = 2
    /\ callArgs[1].estimatedHours = Number(30)
    /\ callArgs[1].actualHours = Number(20)
    /\ callArgs[2].estimatedHours = String("abc")
    /\ callArgs[2].actualHours = Null
    /\ callResult[1].efficiencyRatio = Fraction(3000, 20)

(***************************************************************************)
(* The graph buildTaskDependencyGraph is specified against                 *)
(***************************************************************************)
GraphIds == {callArgs[i].id : i \in DOMAIN callArgs}

DepsOf(id) ==
    UNION {Range(callArgs[i].dependencies) : i \in {k \in DOMAIN callArgs : callArgs[k].id = id}}

RECURSIVE DepClosure(_)
DepClosure(S) ==
    LET next == S \cup UNION {DepsOf(x) : x \in S}
    IN  IF next = S THEN S ELSE DepClosure(next)

\* every dependency resolves to a task and no task reaches itself
PassedValidation ==
    /\ \A id \in GraphIds : DepsOf(id) \subseteq GraphIds
    /\ \A id \in GraphIds : id \notin DepClosure(DepsOf(id))

RECURSIVE ChainLength(_, _)
\* the tasks whose dependency chains have at most k edges, as a set that
\* grows with k; ChainLength(id, k) is the least such k for id
AtMost(k) ==
    LET RECURSIVE Upto(_)
        Upto(j) == IF j = 0 THEN {id \in GraphIds : DepsOf(id) = {}}
                   ELSE {id \in GraphIds : DepsOf(id) \subseteq Upto(j - 1)}
    IN  Upto(k)

ChainLength(id, k) == IF id \in AtMost(k) THEN k ELSE ChainLength(id, k + 1)

Maximum(S) == CHOOSE x \in S : \A y \in S : y <= x

\* C17: for every collection that passed validation, a task without
\* dependencies has level 0 and every other task level 1 + the maximum of
\* the levels of its dependencies, which is the length of the longest
\* dependency chain ending at the task, diamonds included.
C17_LevelIsLongestChain ==
    (callResult # <<>> /\ PassedValidation) =>
        LET graph == callResult[1]
        IN  \A id \in GraphIds :
                /\ graph[id].level =
                       IF DepsOf(id) = {} THEN 0
                       ELSE 1 + Maximum({graph[d].level : d \in DepsOf(id)})
                /\ graph[id].level = ChainLength(id, 0)

\* a diamond: task 4 depends on 2 and 3, task 3 on 1 and 2, task 2 on 1;
\* the longest chain ending at 4 has three edges
C17_Witness ==
    /\ callResult # <<>>
    /\ Len(callArgs) = 4
    /\ callArgs[2].dependencies = <<1>>
    /\ callArgs[3].dependencies = <<1, 2>>
    /\ callArgs[4].dependencies = <<2, 3>>
    /\ callResult[1][4].level = 3

\* C18: a is listed in dependents(b) exactly when b is listed in
\* dependencies(a), for all tasks a and b; a dependency id of no task
\* creates no node and no dependents entry, and every task has one node.
C18_DependentsInvertDependencies ==
    callResult # <<>> =>
        LET graph == callResult[1]
        IN  /\ DOMAIN graph = GraphIds
            /\ \A a, b \in GraphIds :
                   a \in Range(graph[b].dependents) <=> b \in DepsOf(a)
            /\ \A b \in GraphIds : Range(graph[b].dependents) \subseteq GraphIds
            /\ \A a \in GraphIds :
                   Range(graph[a].dependencies) = DepsOf(a)

\* task 1 depends on task 2 and on the id of no task, task 2 on itself
C18_Witness ==
    /\ callResult # <<>>
    /\ Len(callArgs) = 2
    /\ callArgs[1].dependencies = <<2, 3>>
    /\ callArgs[2].dependencies = <<2>>
    /\ callResult[1][2].dependents = <<1, 2>>
    /\ DOMAIN callResult[1] = {1, 2}

(***************************************************************************)
(* Access to the projects and tasks of other users                         *)
(***************************************************************************)
\* the rows of the tasks table that belong to project p
RowsOf(tasks, p) == {<<t, tasks[t]>> : t \in {x \in DOMAIN tasks :
                                                tasks[x].project_id = p}}

\* the projects the call that was just answered names: the one of its
\* projectId, and the one of the task of its taskId
NamedProjects ==
    {p \in DOMAIN dbProjects :
        \/ dbCall'.projectId = <<p>>
        \/ \E t \in DOMAIN dbTasks :
               dbCall'.taskId = <<t>> /\ dbTasks[t].project_id = p}

\* C19: a call by user U returns data of no project of another user, and
\* inserts, updates and deletes no project row and no task row of a project
\* of another user; a call by U that names a project of another user, or a
\* task of one, returns an error response and leaves the projects and the
\* tasks as they were; checkProjectPermission grants access exactly when the
\* project's user id is the caller's login.
C19_NoAccessToOthersProjects ==
    [][LET U == dbCall'.login
       IN  /\ \A owner, login \in Users :
                  checkProjectPermission(owner, login) <=> owner = login
           /\ \A p \in dbResponse'.data :
                  /\ p \in DOMAIN dbProjects'
                  /\ dbProjects'[p].user_id = U
           /\ DOMAIN dbProjects \subseteq DOMAIN dbProjects'
           /\ \A p \in DOMAIN dbProjects' :
                  dbProjects'[p].user_id # U =>
                      /\ p \in DOMAIN dbProjects
                      /\ dbProjects'[p] = dbProjects[p]
                      /\ RowsOf(dbTasks', p) = RowsOf(dbTasks, p)
           /\ \A p \in NamedProjects :
                  dbProjects[p].user_id # U =>
                      /\ dbResponse'.isError
                      /\ UNCHANGED <<dbProjects, dbTasks>>]_vars

\* a privileged user was denied the stored task of a project of another
\* user, and the task is stored as it was
C19_Witness ==
    /\ dbResponse.isError
    /\ dbResponse.tool \in {"task-update", "task-complete"}
    /\ dbResponse.message = "Permission denied"
    /\ dbCall.login # dbProjects[dbTasks[dbCall.taskId[1]].project_id].user_id
    /\ dbTasks[dbCall.taskId[1]].updated_at = dbTasks[dbCall.taskId[1]].created_at

(***************************************************************************)
(* parse-prp without overwriteExisting                                     *)
(***************************************************************************)
\* call c has just run an INSERT INTO tasks
Inserts(c) == pCalls'[c].inserted # pCalls[c].inserted

\* C20: in every interleaving of parse-prp calls, a call made with
\* overwriteExisting = false inserts a task only while the project has no
\* task but those the call itself has inserted; and a call that has counted
\* tasks in the project returns the 'Project already has tasks' error and
\* leaves the tasks and prp_content of the project as they were.
C20_InsertsOnlyIntoEmptyProject ==
    [][\A c \in DOMAIN pCalls :
          LET args == pCalls[c].args
          IN  /\ (~args.overwriteExisting /\ Inserts(c)) =>
                     ProjectTasks(args.projectId) \subseteq pCalls[c].inserted
              /\ (pCalls[c].pc = "count" /\ pCalls'[c].pc # "count"
                      /\ ProjectTasks(args.projectId) # {}) =>
                     /\ dbResponse'.isError
                     /\ dbResponse'.message = "Project already has tasks"
                     /\ UNCHANGED <<dbTasks, dbProjects>>]_vars

(***************************************************************************)
(* task-complete on a task that is done                                    *)
(***************************************************************************)
\* the step is a call of task-complete by the owner of the project on a
\* stored task t that is done
CompletesDone(t) ==
    /\ dbResponse'.tool = "task-complete"
    /\ dbCall'.taskId = <<t>>
    /\ dbTasks[t].status = "done"
    /\ dbProjects[dbTasks[t].project_id].user_id = dbCall'.login

\* C21: task-complete on a task whose status is done returns the error
\* 'Task is already completed' and changes nothing: the row of the task,
\* with its status, actual_hours, notes, completed_at and updated_at, and
\* every other row stay as they were, whatever actualHours and notes the
\* call supplies.
C21_CompleteDoneChangesNothing ==
    [][\A t \in DOMAIN dbTasks :
          CompletesDone(t) =>
              /\ dbResponse'.isError
              /\ dbResponse'.message = "Task is already completed"
              /\ UNCHANGED <<dbTasks, dbProjects>>]_vars

\* task-complete was refused for a done task that has no actual hours and
\* no notes, which a call supplying them would have set
C21_Witness ==
    /\ dbResponse.tool = "task-complete"
    /\ dbResponse.message = "Task is already completed"
    /\ dbCall.taskId # <<>>
    /\ dbCall.taskId[1] \in DOMAIN dbTasks
    /\ dbTasks[dbCall.taskId[1]].status = "done"
    /\ dbTasks[dbCall.taskId[1]].actual_hours = <<>>
    /\ dbTasks[dbCall.taskId[1]].notes = <<>>

(***************************************************************************)
(* The task tools of a user outside the allow-list                         *)
(***************************************************************************)
\* C22: task-list, task-next and task-get are registered for every user,
\* task-update and task-complete exactly for the users of ALLOWED_USERNAMES;
\* so a call of a task tool by a user outside the allow-list is a call of one
\* of the three reading tools and leaves every stored task as it was.
C22_WritesOnlyForAllowedUsers ==
    [][/\ \A login \in Users :
              /\ {"task-list", "task-next", "task-get"}
                     \subseteq registerTaskTools(login)
              /\ "task-update" \in registerTaskTools(login)
                     <=> login \in ALLOWED_USERNAMES
              /\ "task-complete" \in registerTaskTools(login)
                     <=> login \in ALLOWED_USERNAMES
       /\ dbCall'.login \notin ALLOWED_USERNAMES =>
              /\ dbResponse'.tool \in {"task-list", "task-next", "task-get"}
              /\ UNCHANGED dbTasks]_vars

\* a user outside the allow-list was shown an existing task of their own
\* project
C22_Witness ==
    /\ dbCall.login \in Users \ ALLOWED_USERNAMES
    /\ dbResponse.tool = "task-get"
    /\ ~dbResponse.isError
    /\ dbCall.taskId[1] \in DOMAIN dbTasks
    /\ dbProjects[dbTasks[dbCall.taskId[1]].project_id].user_id = dbCall.login

(***************************************************************************)
(* project-init and the names of a user's projects                         *)
(***************************************************************************)
\* call c takes a step while a project of its name exists for its user
StepsOnDuplicate(c) ==
    /\ pCalls'[c] # pCalls[c]
    /\ SameName(pCalls[c].args.login, pCalls[c].args.name) # {}

\* C23: in every interleaving of project-init calls no user owns two
\* projects of one name, and a call that takes a step while a project of its
\* name exists for its user, whether its duplicate check or, after two calls
\* passed the check, its insert, returns an error and creates no project.
C23_NoTwoProjectsOfOneName ==
    /\ [](\A p, q \in DOMAIN dbProjects :
              (dbProjects[p].user_id = dbProjects[q].user_id
                   /\ dbProjects[p].name = dbProjects[q].name) => p = q)
    /\ [][\A c \in DOMAIN pCalls :
              StepsOnDuplicate(c) =>
                  /\ pCalls'[c].pc = "returned"
                  /\ dbResponse'.isError
                  /\ UNCHANGED dbProjects]_vars

\* two calls of one user with one name both passed the duplicate check; one
\* created the project and the insert of the other failed
C23_Witness ==
    /\ pCalls[1].args = pCalls[2].args
    /\ pCalls[1].pc = "returned"
    /\ pCalls[2].pc = "returned"
    /\ dbResponse.message = "Failed to create project"
    /\ Cardinality(DOMAIN dbProjects) = 1

(***************************************************************************)
(* The text of a duration                                                  *)
(***************************************************************************)
\* C24: a duration below one hour, zero included, is rendered as its
\* rounded number of minutes followed by ' minutes' (0 as '0 minutes', half
\* an hour as '30 minutes'), a duration from 1 hour up to but excluding 24
\* as hours, and a duration of 24 hours or more as days plus the remaining
\* hours.
C24_DurationText ==
    (callResult # <<>> /\ callArgs.type = "number" /\ callArgs.n >= 0) =>
        LET t == callArgs.n
            text == callResult[1]
        IN  /\ t < 10 => text = Text("minutes", 0, t * 6)
            /\ (10 <= t /\ t < 240) => text = Text("hours", 0, t)
            /\ t >= 240 => text = Text("days", t \div 240, t % 240)

(***************************************************************************)
(* Levels in collections with cycles                                       *)
(***************************************************************************)
\* the paths from id along dependencies that resolve to tasks, no task
\* twice
PathsFrom(id) ==
    {p \in UNION {[1..k -> GraphIds] : k \in 1..Cardinality(GraphIds)} :
        /\ p[1] = id
        /\ \A i, j \in DOMAIN p : i # j => p[i] # p[j]
        /\ \A i \in 1..(Len(p) - 1) : p[i + 1] \in DepsOf(p[i])}

\* the edges of the path, and one more if its last task depends on a task
\* of the path: that branch ends there with 0
WalkLength(p) ==
    (Len(p) - 1)
    + (IF DepsOf(p[Len(p)]) \cap {p[i] : i \in DOMAIN p} # {} THEN 1 ELSE 0)

\* C25: on every collection, with cycles, self-references and dependencies
\* on no task, buildTaskDependencyGraph returns a node for every task; the
\* level of a task is the greatest number of dependency edges that can be
\* followed from it, where a branch that comes back to a task already on the
\* path ends with 0, and lies between 0 and the number of tasks.
C25_LevelsOnCycles ==
    callResult # <<>> =>
        LET graph == callResult[1]
        IN  /\ DOMAIN graph = GraphIds
            /\ \A id \in GraphIds :
                   /\ graph[id].level \in 0..Len(callArgs)
                   /\ graph[id].level =
                          Maximum({WalkLength(p) : p \in PathsFrom(id)})

\* tasks 1 and 2 depend on each other: each has level 2
C25_Witness ==
    /\ callResult # <<>>
    /\ Len(callArgs) = 2
    /\ callArgs[1].dependencies = <<2>>
    /\ callArgs[2].dependencies = <<1>>
    /\ callResult[1][1].level = 2
    /\ callResult[1][2].level = 2

(***************************************************************************)
(* parse-prp with overwriteExisting                                        *)
(***************************************************************************)
\* call c was made with overwriteExisting = true and has returned success
Overwritten(c) ==
    /\ pCalls[c].args.overwriteExisting
    /\ pCalls[c].pc = "returned"
    /\ ~dbResponse.isError

\* C26: after a successful parse-prp call with overwriteExisting = true the
\* tasks of the project are the rows the call inserted, one for each
\* generated task and in their order, each with status todo and no
\* completed_at; no row the project had before is left, the rows of other
\* projects are as they were, and prp_content is the sanitized content.
C26_OverwriteReplacesTasks ==
    \A c \in DOMAIN pCalls :
        Overwritten(c) =>
            LET args == pCalls[c].args
                aiTasks == pCalls[c].aiTasks
            IN  /\ ProjectTasks(args.projectId) = pCalls[c].inserted
                /\ pCalls[c].inserted = 1..Len(aiTasks)
                /\ \A k \in 1..Len(aiTasks) :
                       /\ dbTasks[k].title = aiTasks[k].title
                       /\ dbTasks[k].priority = aiTasks[k].priority
                       /\ dbTasks[k].dependencies = aiTasks[k].dependencies
                       /\ dbTasks[k].status = "todo"
                       /\ dbTasks[k].completed_at = <<>>
                /\ \E before \in TasksBefore :
                       \A id \in DOMAIN before :
                           IF before[id].project_id = args.projectId
                           THEN id \notin DOMAIN dbTasks
                           ELSE id \in DOMAIN dbTasks /\ dbTasks[id] = before[id]
                /\ dbProjects[args.projectId].prp_content =
                       <<sanitizePRPContent(args.prpContent)>>

\* a call on project p1 has replaced the stored task of the project by a
\* generated task; the task of project p2 is still there
C26_Witness ==
    /\ Overwritten(1)
    /\ pCalls[1].args.projectId = "p1"
    /\ pCalls[1].inserted # {}
    /\ (MaxTaskRows + 1) \notin DOMAIN dbTasks
    /\ (MaxTaskRows + 2) \in DOMAIN dbTasks

(***************************************************************************)
(* The analytics of project-get                                            *)
(***************************************************************************)
RECURSIVE StoredHours(_, _)
\* the sum of a column of hours over rows, NULL counted as 0
StoredHours(ids, column) ==
    IF ids = {} THEN 0
    ELSE LET id == CHOOSE x \in ids : TRUE
         IN  (IF dbTasks[id][column] = <<>> THEN 0 ELSE dbTasks[id][column][1])
             + StoredHours(ids \ {id}, column)

\* C27: the analytics project-get shows have totalEstimatedHours equal to
\* the sum of the stored estimated_hours of the tasks of the project and
\* totalActualHours equal to the sum of their stored actual_hours, NULL
\* counted as 0; when both sums are positive the efficiency ratio is not 0.
C27_AnalyticsOfStoredTasks ==
    (dbResponse.tool = "project-get" /\ ~dbResponse.isError) =>
        LET projectId == dbCall.projectId[1]
            analytics == dbResponse.analytics
            estimated == StoredHours(ProjectTasks(projectId), "estimated_hours")
            actual == StoredHours(ProjectTasks(projectId), "actual_hours")
        IN  /\ analytics.totalEstimatedHours = estimated
            /\ analytics.totalActualHours = actual
            /\ (estimated > 0 /\ actual > 0) => analytics.efficiencyRatio # Zero

(***************************************************************************)
(* The filters of task-list                                                *)
(***************************************************************************)
\* C28: every task task-list returns is a task of the project asked for and
\* has the status, the priority and the assignee of each filter the call
\* was given, whichever of the three filters are given.
C28_ListedTasksPassEveryFilter ==
    (dbResponse.tool = "task-list" /\ ~dbResponse.isError) =>
        \A id \in dbResponse.tasks :
            LET filter == dbCall.filter
            IN  /\ dbTasks[id].project_id = dbCall.projectId[1]
                /\ filter.status # <<>> => dbTasks[id].status = filter.status[1]
                /\ filter.priority # <<>> =>
                       dbTasks[id].priority = filter.priority[1]
                /\ filter.assignee # <<>> =>
                       dbTasks[id].assignee = filter.assignee

(***************************************************************************)
(* The trigger and validateTaskDependencies                                *)
(***************************************************************************)
\* C29: for every stored graph of a project and every new dependency list
\* of a task whose dependencies are all tasks of the project, the trigger
\* raises 'Circular dependency detected' exactly when
\* validateTaskDependencies reports 'Circular dependency detected'; so the
\* trigger lets through every list that leaves the graph without a cycle.
C29_TriggerAgreesOnCircularity ==
    (/\ vResult.called
     /\ callResult # <<>>
     /\ callResult[1] # RaiseSameProject) =>
        (callResult[1] = RaiseCircular) <=> (ErrCycle \in Range(vResult.errors))

(***************************************************************************)
(* Working through a project without cycles                                *)
(***************************************************************************)
AllDone == \A id \in DOMAIN dbTasks : dbTasks[id].status = "done"

\* the last call was task-next
Asked == dbResponse.tool = "task-next"

\* the step completes task id
Completes(id) == dbTasks[id].status # "done" /\ dbTasks'[id].status = "done"

\* C30: in a project without dependency cycles, whose dependencies are all
\* tasks of the project and where no task is in_progress, findNextTask
\* without excludeBlocked returns a task as long as some task is not done;
\* when the owner keeps asking and completes the recommended task each
\* time, a task is completed only when all its dependencies are done, and
\* in the end every task is done.
C30_RecommendedTasksFinishTheProject ==
    /\ [](~AllDone => findNextTask(RowArray("p1"), FALSE) # <<>>)
    /\ [][\A id \in DOMAIN dbTasks :
             Completes(id) =>
                 \A d \in Range(dbTasks[id].dependencies) :
                     dbTasks[d].status = "done"]_vars
    /\ []<>Asked => <>[]AllDone

\* every task is done, and a task was completed after a task it depends on
C30_Witness ==
    /\ AllDone
    /\ \E id \in DOMAIN dbTasks :
           \E d \in Range(dbTasks[id].dependencies) :
               /\ dbTasks[d].completed_at # <<>>
               /\ dbTasks[id].completed_at # <<>>
               /\ dbTasks[id].completed_at[1] > dbTasks[d].completed_at[1]
               /\ dbTasks[d].completed_at[1] > 0

====
